---------------------------- MODULE Spec2Model ----------------------------
(***************************************************************************)
(* Byte-stream transcoding kernels of lemire-simd: in-place compaction     *)
(* (remove_chars_from_strings.rs), JSON escaping (escape_strings.rs),      *)
(* line-feed insertion (line_feed_every_k_bytes.rs) and the SWAR           *)
(* existence scan (json_escape_SWAR.rs).                                   *)
(*                                                                         *)
(* Memory is a sequence of bytes (0..255); a pointer is a 0-based index,   *)
(* so the byte at pointer q of buffer b is b[q + 1].  A NEON vector is a   *)
(* sequence of lanes.  Each driver loop iteration is one action.           *)
(***************************************************************************)
EXTENDS Integers, Sequences, FiniteSets, TLC

VARIABLES
    pc,         \* position of the running call
    waiting,    \* position of the call of a second caller, which runs when
                \* the two are switched; "none" when there is one caller
    B,          \* the caller's buffer as it was when the call started
    stores,     \* the stores issued by the latest step: [at, width]
    \* remove_chars_from_strings.rs
    buf, rem, p, out_ptr, neon_len,      \* remove_byte_neon
    sbuf, i, out, scalar_len,            \* remove_chars_from_strings_scalar
    first,      \* <<NEON prefix, scalar prefix, buffer>>: the kept prefixes a
                \* first compaction of buffer left, once the calls are
                \* repeated on them; <<>> before
    \* escape_strings.rs (out_ptr, i and the two lengths are shared)
    input, output, in_ptr,               \* escape_json_neon
    soutput, out_idx,                    \* escape_json_scalar
    \* line_feed_every_k_bytes.rs (output is shared: the Vec's allocation)
    buffer, k, input_pos, output_pos, remaining, neon_vec,  \* insert_line_feed_neon
    s_input_pos, s_output,               \* insert_line_feed_scalar
    \* json_escape_SWAR.rs (buffer and i are shared)
    ret,        \* what has_json_escapable_byte returned, "none" before
    read_end,   \* one past the highest index of buffer read so far
    \* timestamp_parser_neon.rs, ipv4_parser_neon.rs
    date_string, ip_string,              \* the argument of the calls
    neon_ret, scalar_ret,                \* what the NEON and the scalar call
                                         \* returned, "none" before
    \* ascii_tolower_neon.rs (buffer and i are shared, neon_ret holds the
    \* vectors the three NEON functions returned, in the order of the calls)
    result,     \* the Vec the running call fills
    \* json_escape_SWAR.rs
    found,      \* what find_first_escapable returned, "none" before
    \* line_feed_every_k_bytes.rs (input and output are shared)
    n32,        \* the argument n of insert_line_feed32_neon_impl
    \* the tables looked up and compress8 called by themselves (input,
    \* output and out_ptr are shared)
    table_mask, \* the mask
    rows,       \* <<row of SHUF8_TABLE, row of COMPRESS_TABLE>>, <<>> before
    kept,       \* what compress8 returned
    ub          \* undefined behaviour so far: "load" or "store" outside a buffer

compactVars == <<buf, rem, p, sbuf, out>>
escapeVars == <<input, output, in_ptr, soutput, out_idx>>
lfVars == <<buffer, k, input_pos, output_pos, remaining, neon_vec,
            s_input_pos, s_output>>
scanVars == <<ret, read_end>>
parseVars == <<date_string, ip_string, neon_ret, scalar_ret>>
otherVars == <<result, found, n32, table_mask, rows, kept>>
notCompact == <<waiting, ub, first, escapeVars, lfVars, scanVars, parseVars,
               otherVars>>
notEscape == <<waiting, B, first, compactVars, lfVars, scanVars, parseVars,
              otherVars>>
besideLineFeed == <<waiting, B, first, out_ptr, neon_len, i, scalar_len,
                    buf, rem, p, out, input, in_ptr, soutput, out_idx,
                    scanVars, parseVars, otherVars>>
notLineFeed == <<besideLineFeed, sbuf>>
notScan == <<waiting, B, first, stores, out_ptr, neon_len, scalar_len, ub,
             compactVars, escapeVars, k, input_pos, output_pos, remaining,
             neon_vec, s_input_pos, s_output, parseVars, otherVars>>
notParse == <<waiting, B, first, stores, out_ptr, neon_len, i, scalar_len, ub,
              compactVars, escapeVars, lfVars, scanVars, date_string,
              ip_string, otherVars>>
vars == <<pc, waiting, B, first, stores, out_ptr, neon_len, i, scalar_len, ub,
          compactVars, escapeVars, lfVars, scanVars, parseVars, otherVars>>

\* no call of the lower-casing functions, of find_first_escapable, of
\* insert_line_feed32_neon_impl or of compress8 by itself is under way
OthersIdle ==
    /\ result = <<>> /\ found = "none" /\ n32 = 0
    /\ table_mask = 0 /\ rows = <<>> /\ kept = 0

\* no parser call is under way
ParsersIdle ==
    /\ date_string = <<>> /\ ip_string = <<>>
    /\ neon_ret = "none" /\ scalar_ret = "none"

-----------------------------------------------------------------------------
(* Bounds of the checked instances *)

\* the compaction calls run on buffers of up to MaxBlocks 16-byte blocks
\* followed by up to MaxTail bytes
MaxBlocks == 2
MaxTail == 2

\* the escape calls run on inputs of up to MaxChunks 8-byte chunks followed
\* by up to MaxEscTail bytes
MaxChunks == 2
MaxEscTail == 2

\* the line-feed calls run on buffers of up to MaxLfLen bytes with a period
\* of up to MaxK
MaxLfLen == 36
MaxK == 34

\* the scan runs on buffers of up to MaxScanLen bytes
MaxScanLen == 10

\* two callers: one inserts line feeds with a period of up to MaxCallerK
\* into up to MaxCallerLen bytes, the other compacts up to MaxNeighbourLen
MaxCallerLen == 4
MaxCallerK == 3
MaxNeighbourLen == 3

\* the scan followed by the escape runs on buffers of up to MaxGuardLen bytes
MaxGuardLen == 9

-----------------------------------------------------------------------------
(* Bytes, lanes and the NEON intrinsics the kernels use *)

Byte == 0..255

Pow2(n) == 2 ^ n

Bit(b, n) == (b \div Pow2(n)) % 2

RECURSIVE SumTo(_, _)
\* f[0] + ... + f[n-1]
SumTo(f, n) == IF n = 0 THEN 0 ELSE f[n - 1] + SumTo(f, n - 1)

\* u8::count_ones
count_ones(m) == SumTo([n \in 0..7 |-> Bit(m, n)], 8)

\* a vector (or a memory) given lane by lane, as a sequence of n lanes
Lanes(f, n) == SubSeq(f, 1, n)

\* vdup_n_u8 / vdupq_n_u8: every lane holds b
vdup(b, lanes) == Lanes([x \in 1..lanes |-> b], lanes)

\* vceq_u8 / vceqq_u8: lane-wise equality, all ones where equal
vceq(a, b) == Lanes([x \in 1..Len(a) |-> IF a[x] = b[x] THEN 255 ELSE 0], Len(a))

\* vmvn_u8: lane-wise bitwise not
vmvn(a) == Lanes([x \in 1..Len(a) |-> 255 - a[x]], Len(a))

\* vget_low_u8 / vget_high_u8
vget_low(v) == SubSeq(v, 1, 8)
vget_high(v) == SubSeq(v, 9, 16)

\* vtbl1_u8: lane x of the result is table[idx[x]], or 0 when idx[x] >= 8
vtbl1(table, idx) ==
    Lanes([x \in 1..8 |-> IF idx[x] < 8 THEN table[idx[x] + 1] ELSE 0], 8)

\* bitwise or of two bytes
OrByte(a, b) ==
    IF a = b \/ b = 0 THEN a
    ELSE IF a = 0 THEN b
    ELSE SumTo([n \in 0..7 |->
                  IF Bit(a, n) = 1 \/ Bit(b, n) = 1 THEN Pow2(n) ELSE 0], 8)

\* bitwise and, bitwise exclusive or of two bytes
AndByte(a, b) ==
    SumTo([n \in 0..7 |-> Bit(a, n) * Bit(b, n) * Pow2(n)], 8)

XorByte(a, b) ==
    SumTo([n \in 0..7 |-> ((Bit(a, n) + Bit(b, n)) % 2) * Pow2(n)], 8)

\* vorrq_u8
vorr(a, b) == Lanes([x \in 1..Len(a) |-> OrByte(a[x], b[x])], Len(a))

\* bit n of the result is bit n of a where bit n of m is set, else of b
BslByte(m, a, b) ==
    IF m = 255 THEN a
    ELSE IF m = 0 THEN b
    ELSE SumTo([n \in 0..7 |->
                  (IF Bit(m, n) = 1 THEN Bit(a, n) ELSE Bit(b, n)) * Pow2(n)], 8)

\* vbslq_u8
vbsl(m, a, b) ==
    Lanes([x \in 1..Len(m) |-> BslByte(m[x], a[x], b[x])], Len(m))

\* vmovl_u8: each u8 lane widened to a u16 lane
vmovl_u8(v) == Lanes([x \in 1..8 |-> v[x]], 8)

\* vreinterpretq_u8_u16: the little-endian bytes of the u16 lanes
vreinterpretq_u8_u16(w) ==
    Lanes([x \in 1..16 |->
             IF x % 2 = 1 THEN w[(x + 1) \div 2] % 256
                          ELSE w[x \div 2] \div 256], 16)

\* vcombine_u8
vcombine(lo, hi) == lo \o hi

\* vextq_u8(a, b, n): lanes n..n+15 of a followed by b
vextq(a, b, n) == SubSeq(a \o b, n + 1, n + 16)

\* vqtbl1q_u8: lane x of the result is table[idx[x]], or 0 when idx[x] >= 16
vqtbl1q(table, idx) ==
    Lanes([x \in 1..16 |-> IF idx[x] < 16 THEN table[idx[x] + 1] ELSE 0], 16)

\* a load of `width` bytes at pointer q (inside the buffer)
Load(mem, q, width) == SubSeq(mem, q + 1, q + width)

\* a store of the lanes of v at pointer q
Store(mem, q, v) ==
    Lanes([x \in 1..Len(mem) |->
             IF q < x /\ x <= q + Len(v) THEN v[x - q] ELSE mem[x]], Len(mem))

-----------------------------------------------------------------------------
(* remove_chars_from_strings.rs *)

RECURSIVE shuffle_row(_, _, _, _)
\* the inner loop of generate_shuffle_table for one mask, from lane on
shuffle_row(mask, lane, o, row) ==
    IF lane = 8 THEN row
    ELSE IF Bit(mask, lane) # 0
         THEN shuffle_row(mask, lane + 1, o + 1,
                          [row EXCEPT ![o + 1] = lane])
         ELSE shuffle_row(mask, lane + 1, o, row)

generate_shuffle_table_seven_lanes ==
    [mask \in 0..255 |-> shuffle_row(mask % 128, 0, 0, vdup(255, 8))]

generate_shuffle_table_zero_filled ==
    [mask \in 0..255 |-> shuffle_row(mask, 0, 0, vdup(0, 8))]

generate_shuffle_table ==
    [mask \in 0..255 |-> shuffle_row(mask, 0, 0, vdup(255, 8))]

\* the table with its last row, that of the mask that keeps every lane,
\* left at zero
SHUF8_TABLE_without_last_row ==
    [mask \in 0..255 |-> IF mask = 255 THEN vdup(0, 8)
                         ELSE generate_shuffle_table[mask]]

SHUF8_TABLE == generate_shuffle_table

movemask_u8x8_msb_first(v) ==
    SumTo([n \in 0..7 |-> IF v[n + 1] # 0 THEN Pow2(7 - n) ELSE 0], 8)

\* one bit per lane: bit n set iff lane n is non-zero
movemask_u8x8(v) == SumTo([n \in 0..7 |-> IF v[n + 1] # 0 THEN Pow2(n) ELSE 0], 8)

compress8_counts_removed(v, mask, at) ==
    [kept  |-> 8 - count_ones(mask),
     store |-> [at |-> at, bytes |-> vtbl1(v, SHUF8_TABLE[mask])]]

compress8_off_by_one(v, mask, at) ==
    [kept  |-> count_ones(mask) + 1,
     store |-> [at |-> at, bytes |-> vtbl1(v, SHUF8_TABLE[mask])]]

\* the lanes selected by mask, packed to the front of an 8-byte store at `at`
compress8(v, mask, at) ==
    [kept  |-> count_ones(mask),
     store |-> [at |-> at, bytes |-> vtbl1(v, SHUF8_TABLE[mask])]]

StoreRec(st) == [at |-> st.at, width |-> Len(st.bytes)]

\* the first loop of remove_byte_neon: one 16-byte block
remove_byte_neon_block ==
    /\ pc = "remove_byte_neon"
    /\ p + 16 <= Len(buf)
    /\ \E block \in {Load(buf, p, 16)} :
       \E lo \in {vget_low(block)}, hi \in {vget_high(block)} :
       \E keep_lo \in {vmvn(vceq(lo, vdup(rem, 8)))},
          keep_hi \in {vmvn(vceq(hi, vdup(rem, 8)))} :
       \E mask_lo \in {movemask_u8x8(keep_lo)},
          mask_hi \in {movemask_u8x8(keep_hi)} :
       \E c_lo \in {compress8(lo, mask_lo, out_ptr)} :
       \E c_hi \in {compress8(hi, mask_hi, out_ptr + c_lo.kept)} :
           /\ buf' = Store(Store(buf, c_lo.store.at, c_lo.store.bytes),
                           c_hi.store.at, c_hi.store.bytes)
           /\ out_ptr' = out_ptr + c_lo.kept + c_hi.kept
           /\ p' = p + 16
           /\ stores' = <<StoreRec(c_lo.store), StoreRec(c_hi.store)>>
    /\ UNCHANGED <<pc, B, rem, neon_len, sbuf, i, out, scalar_len, notCompact>>

\* the second loop of remove_byte_neon: one remaining byte
remove_byte_neon_tail ==
    /\ pc = "remove_byte_neon"
    /\ ~(p + 16 <= Len(buf))
    /\ p < Len(buf)
    /\ LET b == buf[p + 1]
       IN  IF b # rem
           THEN /\ buf' = [buf EXCEPT ![out_ptr + 1] = b]
                /\ out_ptr' = out_ptr + 1
                /\ stores' = <<[at |-> out_ptr, width |-> 1]>>
           ELSE /\ UNCHANGED <<buf, out_ptr>>
                /\ stores' = <<>>
    /\ p' = p + 1
    /\ UNCHANGED <<pc, B, rem, neon_len, sbuf, i, out, scalar_len, notCompact>>

remove_byte_neon_return ==
    /\ pc = "remove_byte_neon"
    /\ ~(p + 16 <= Len(buf))
    /\ ~(p < Len(buf))
    /\ neon_len' = out_ptr
    /\ stores' = <<>>
    /\ pc' = "remove_chars_from_strings_scalar"
    /\ UNCHANGED <<B, buf, rem, p, out_ptr, sbuf, i, out, scalar_len, notCompact>>

\* one iteration of the loop of remove_chars_from_strings_scalar
remove_chars_from_strings_scalar_step ==
    /\ pc = "remove_chars_from_strings_scalar"
    /\ i < Len(sbuf)
    /\ LET b == sbuf[i + 1]
       IN  IF b # rem
           THEN /\ sbuf' = [sbuf EXCEPT ![out + 1] = b]
                /\ out' = out + 1
                /\ stores' = <<[at |-> out, width |-> 1]>>
           ELSE /\ UNCHANGED <<sbuf, out>>
                /\ stores' = <<>>
    /\ i' = i + 1
    /\ UNCHANGED <<pc, B, buf, rem, p, out_ptr, neon_len, scalar_len, notCompact>>

remove_chars_from_strings_scalar_return ==
    /\ pc = "remove_chars_from_strings_scalar"
    /\ i = Len(sbuf)
    /\ scalar_len' = out
    /\ stores' = <<>>
    /\ pc' = "compact_done"
    /\ UNCHANGED <<B, buf, rem, p, out_ptr, neon_len, sbuf, i, out, notCompact>>

(* The buffers the compaction calls are run on.  Lane x (0-based) holds    *)
(* either the byte to remove or Tag(x), a non-zero byte that differs from  *)
(* lane to lane, so that a misplaced or zeroed byte shows.  The lanes kept *)
(* in each aligned group of 8 are those of a keep-mask m in 0..255; with   *)
(* flip = 1 the odd groups use the complement of m.                        *)
Tag(x) == IF x % 2 = 0 THEN 1 + x ELSE 128 + x

RemBytes == {97, 255}

KeepLane(x, m, flip) ==
    LET g == x \div 8
        mm == IF flip = 1 /\ g % 2 = 1 THEN 255 - m ELSE m
    IN  Bit(mm, x % 8) = 1

CompactBuffer(len, r, m, flip) ==
    [x \in 1..len |-> IF KeepLane(x - 1, m, flip) THEN Tag(x - 1) ELSE r]

CompactLens == {16 * nb + t : nb \in 0..MaxBlocks, t \in 0..MaxTail}

InitCompact ==
    /\ pc = "remove_byte_neon"
    /\ rem \in RemBytes
    /\ \E len \in CompactLens, m \in 0..255, flip \in {0, 1} :
          B = CompactBuffer(len, rem, m, flip)
    /\ buf = B
    /\ sbuf = B
    /\ p = 0 /\ out_ptr = 0 /\ neon_len = 0
    /\ i = 0 /\ out = 0 /\ scalar_len = 0
    /\ stores = <<>>
    /\ ub = {}
    /\ input = <<>> /\ output = <<>> /\ in_ptr = 0
    /\ soutput = <<>> /\ out_idx = 0
    /\ buffer = <<>> /\ k = 0 /\ input_pos = 0 /\ output_pos = 0
    /\ remaining = 0 /\ neon_vec = <<>> /\ s_input_pos = 0 /\ s_output = <<>>
    /\ ret = "none" /\ read_end = 0
    /\ OthersIdle
    /\ first = <<>>
    /\ waiting = "none"
    /\ ParsersIdle

NextCompact ==
    \/ remove_byte_neon_block
    \/ remove_byte_neon_tail
    \/ remove_byte_neon_return
    \/ remove_chars_from_strings_scalar_step
    \/ remove_chars_from_strings_scalar_return

SpecCompact == InitCompact /\ [][NextCompact]_vars

\* compact applied twice: once both calls have returned, each is called
\* again, with the same byte, on the kept prefix it left
compact_again ==
    /\ pc = "compact_done"
    /\ first = <<>>
    /\ first' = <<SubSeq(buf, 1, neon_len), SubSeq(sbuf, 1, scalar_len), B>>
    /\ buf' = SubSeq(buf, 1, neon_len)
    /\ sbuf' = SubSeq(sbuf, 1, scalar_len)
    /\ B' = SubSeq(buf, 1, neon_len)
    /\ p' = 0 /\ out_ptr' = 0 /\ neon_len' = 0
    /\ i' = 0 /\ out' = 0 /\ scalar_len' = 0
    /\ stores' = <<>>
    /\ pc' = "remove_byte_neon"
    /\ UNCHANGED <<rem, waiting, ub, escapeVars, lfVars, scanVars, parseVars,
                   otherVars>>

NextCompactTwice ==
    \/ NextCompact
    \/ compact_again

SpecCompactTwice == InitCompact /\ [][NextCompactTwice]_vars

-----------------------------------------------------------------------------
(* escape_strings.rs *)

generate_compress_table_from_lane_1 ==
    [mask \in 0..255 |-> shuffle_row(mask, 1, 0, vdup(255, 16))]

generate_compress_table ==
    [mask \in 0..255 |-> shuffle_row(mask, 0, 0, vdup(255, 16))]

COMPRESS_TABLE == generate_compress_table

\* vcreate_u8(0xFF00FF00FF00FF00): the bytes of the constant, lowest first
odd_mask == <<0, 255, 0, 255, 0, 255, 0, 255>>

\* vld1_u8 of a row of COMPRESS_TABLE: its first 8 entries
compress_row(mask) == SubSeq(COMPRESS_TABLE[mask], 1, 8)

escape_8bytes_wide_store(chunk, at) ==
    LET expanded  == vreinterpretq_u8_u16(vmovl_u8(chunk))
        is_q_or_s == vorr(vceq(expanded, vdup(92, 16)),
                          vceq(expanded, vdup(34, 16)))
        to_keep   == vorr(is_q_or_s, vcombine(odd_mask, odd_mask))
        shifted   == vextq(vdup(0, 16), expanded, 15)
        escaped   == vbsl(is_q_or_s, vdup(92, 16), shifted)
        mask_lo   == movemask_u8x8(vget_low(to_keep))
        mask_hi   == movemask_u8x8(vget_high(to_keep))
        kept_lo   == count_ones(mask_lo)
        kept_hi   == count_ones(mask_hi)
    IN  [written |-> kept_lo + kept_hi,
         stores  |-> << [at |-> at,
                         bytes |-> vtbl1(vget_low(escaped), compress_row(mask_lo))],
                        [at |-> at + kept_lo,
                         bytes |-> vtbl1(vget_high(escaped), compress_row(mask_hi))
                                   \o vdup(0, 8)] >>]

\* one 8-byte chunk, escaped into two 8-byte stores at `at` and at + kept_lo
escape_8bytes(chunk, at) ==
    LET expanded  == vreinterpretq_u8_u16(vmovl_u8(chunk))
        is_solidus == vceq(expanded, vcombine(vdup(92, 8), vdup(92, 8)))
        is_quote  == vceq(expanded, vcombine(vdup(34, 8), vdup(34, 8)))
        is_q_or_s == vorr(is_solidus, is_quote)
        to_keep   == vorr(is_q_or_s, vcombine(odd_mask, odd_mask))
        shifted   == vextq(vdup(0, 16), expanded, 15)
        escaped   == vbsl(is_q_or_s, vcombine(vdup(92, 8), vdup(92, 8)), shifted)
        mask_lo   == movemask_u8x8(vget_low(to_keep))
        mask_hi   == movemask_u8x8(vget_high(to_keep))
        kept_lo   == count_ones(mask_lo)
        kept_hi   == count_ones(mask_hi)
    IN  [written |-> kept_lo + kept_hi,
         stores  |-> << [at |-> at,
                         bytes |-> vtbl1(vget_low(escaped), compress_row(mask_lo))],
                        [at |-> at + kept_lo,
                         bytes |-> vtbl1(vget_high(escaped), compress_row(mask_hi))] >>]

is_designated_quote_only(b) == b = 34

is_designated_or_control(b) == b = 92 \/ b = 34 \/ b < 32

\* b == b'\\' || b == b'"'
is_designated(b) == b = 92 \/ b = 34

\* a store through a raw pointer leaves the buffer
Outside(mem, st) == st.at + Len(st.bytes) > Len(mem)

\* the first loop of escape_json_neon: one 8-byte chunk.  The stores are
\* unchecked; one that leaves the output buffer is undefined behaviour:
\* the call goes on with the bytes landing outside, or the process faults.
escape_json_neon_chunk ==
    /\ pc = "escape_json_neon"
    /\ in_ptr + 8 <= Len(input)
    /\ \E e \in {escape_8bytes(Load(input, in_ptr, 8), out_ptr)} :
       \E st1 \in {e.stores[1]}, st2 \in {e.stores[2]} :
       \E outside \in {Outside(output, st1) \/ Outside(output, st2)} :
           /\ output' = Store(Store(output, st1.at, st1.bytes), st2.at, st2.bytes)
           /\ stores' = <<StoreRec(st1), StoreRec(st2)>>
           /\ in_ptr' = in_ptr + 8
           /\ out_ptr' = out_ptr + e.written
           /\ ub' = ub \cup (IF outside THEN {"store"} ELSE {})
           /\ IF outside
              THEN pc' \in {"escape_json_neon", "escape_fault"}
              ELSE pc' = pc
    /\ UNCHANGED <<neon_len, i, scalar_len, input, soutput, out_idx, notEscape>>

\* the second loop of escape_json_neon: one remaining byte
escape_json_neon_tail ==
    /\ pc = "escape_json_neon"
    /\ ~(in_ptr + 8 <= Len(input))
    /\ in_ptr < Len(input)
    /\ LET b   == input[in_ptr + 1]
           st1 == [at |-> out_ptr, bytes |-> <<92>>]
           o1  == IF is_designated(b) THEN out_ptr + 1 ELSE out_ptr
           st2 == [at |-> o1, bytes |-> <<b>>]
           outside == (is_designated(b) /\ Outside(output, st1))
                      \/ Outside(output, st2)
       IN  /\ output' = Store(IF is_designated(b)
                              THEN Store(output, st1.at, st1.bytes)
                              ELSE output, st2.at, st2.bytes)
           /\ stores' = IF is_designated(b)
                        THEN <<StoreRec(st1), StoreRec(st2)>>
                        ELSE <<StoreRec(st2)>>
           /\ out_ptr' = o1 + 1
           /\ in_ptr' = in_ptr + 1
           /\ ub' = ub \cup (IF outside THEN {"store"} ELSE {})
           /\ IF outside
              THEN pc' \in {"escape_json_neon", "escape_fault"}
              ELSE pc' = pc
    /\ UNCHANGED <<neon_len, i, scalar_len, input, soutput, out_idx, notEscape>>

escape_json_neon_return ==
    /\ pc = "escape_json_neon"
    /\ ~(in_ptr + 8 <= Len(input))
    /\ ~(in_ptr < Len(input))
    /\ neon_len' = out_ptr
    /\ stores' = <<>>
    /\ pc' = "escape_json_scalar"
    /\ UNCHANGED <<out_ptr, i, scalar_len, ub, escapeVars, notEscape>>

\* one iteration of the loop of escape_json_scalar; output[out_idx] is a
\* checked index and panics when out_idx is not below the capacity
escape_json_scalar_step ==
    /\ pc = "escape_json_scalar"
    /\ i < Len(input)
    /\ LET byte == input[i + 1]
           esc  == is_designated(byte)
       IN  IF esc /\ out_idx >= Len(soutput)
           THEN /\ pc' = "escape_panic"
                /\ stores' = <<>>
                /\ UNCHANGED <<soutput, out_idx, i>>
           ELSE LET o1   == IF esc THEN [soutput EXCEPT ![out_idx + 1] = 92]
                                  ELSE soutput
                    idx1 == IF esc THEN out_idx + 1 ELSE out_idx
                    st1  == IF esc THEN <<[at |-> out_idx, width |-> 1]>> ELSE <<>>
                IN  IF idx1 >= Len(soutput)
                    THEN /\ pc' = "escape_panic"
                         /\ soutput' = o1
                         /\ out_idx' = idx1
                         /\ stores' = st1
                         /\ UNCHANGED i
                    ELSE /\ soutput' = [o1 EXCEPT ![idx1 + 1] = byte]
                         /\ out_idx' = idx1 + 1
                         /\ stores' = Append(st1, [at |-> idx1, width |-> 1])
                         /\ i' = i + 1
                         /\ UNCHANGED pc
    /\ UNCHANGED <<out_ptr, neon_len, scalar_len, ub, input, output, in_ptr,
                   notEscape>>

escape_json_scalar_return ==
    /\ pc = "escape_json_scalar"
    /\ i = Len(input)
    /\ scalar_len' = out_idx
    /\ stores' = <<>>
    /\ pc' = "escape_done"
    /\ UNCHANGED <<out_ptr, neon_len, i, ub, escapeVars, notEscape>>

(* The inputs of the escape calls.  Lane x holds a designated byte where   *)
(* bit x % 8 of the mask m is set, and Tag(x) elsewhere.  The designated   *)
(* bytes alternate between quote and backslash from lane to lane, starting *)
(* with one (q = 0) or the other (q = 1), or are all quotes (q = 2) or all *)
(* backslashes (q = 3).  The output buffer has the capacity 2 * len, and   *)
(* for the alternating inputs also 2 * len - 1 and 2 * len + 1, and holds  *)
(* a byte that no call writes.                                             *)
EscapeInput(len, m, q) ==
    [x \in 1..len |->
        IF Bit(m, (x - 1) % 8) = 1
        THEN (IF q = 2 THEN 34
              ELSE IF q = 3 THEN 92
              ELSE IF (x - 1 + q) % 2 = 0 THEN 34 ELSE 92)
        ELSE Tag(x - 1)]

EscapeLens == {8 * nc + t : nc \in 0..MaxChunks, t \in 0..MaxEscTail}

FreshOutput(cap) == [x \in 1..cap |-> 238]

InitEscape ==
    /\ pc = "escape_json_neon"
    /\ \E len \in EscapeLens, m \in 0..255, q \in 0..3 :
          /\ input = EscapeInput(len, m, q)
          /\ \E cap \in {2 * len - 1, 2 * len, 2 * len + 1} :
                /\ cap >= 0
                /\ q >= 2 => cap = 2 * len
                /\ output = FreshOutput(cap)
    /\ soutput = output
    /\ in_ptr = 0 /\ out_ptr = 0 /\ neon_len = 0
    /\ i = 0 /\ out_idx = 0 /\ scalar_len = 0
    /\ stores = <<>>
    /\ ub = {}
    /\ B = <<>> /\ buf = <<>> /\ rem = 0 /\ p = 0 /\ sbuf = <<>> /\ out = 0
    /\ buffer = <<>> /\ k = 0 /\ input_pos = 0 /\ output_pos = 0
    /\ remaining = 0 /\ neon_vec = <<>> /\ s_input_pos = 0 /\ s_output = <<>>
    /\ ret = "none" /\ read_end = 0
    /\ OthersIdle
    /\ first = <<>>
    /\ waiting = "none"
    /\ ParsersIdle

NextEscape ==
    \/ escape_json_neon_chunk
    \/ escape_json_neon_tail
    \/ escape_json_neon_return
    \/ escape_json_scalar_step
    \/ escape_json_scalar_return

SpecEscape == InitEscape /\ [][NextEscape]_vars

-----------------------------------------------------------------------------
(* line_feed_every_k_bytes.rs *)

SHUFFLE_MASKS_NEON ==
    << <<255, 0, 1, 2, 3, 4, 5, 6, 7, 8, 9, 10, 11, 12, 13, 14>>,
       <<0, 255, 1, 2, 3, 4, 5, 6, 7, 8, 9, 10, 11, 12, 13, 14>>,
       <<0, 1, 255, 2, 3, 4, 5, 6, 7, 8, 9, 10, 11, 12, 13, 14>>,
       <<0, 1, 2, 255, 3, 4, 5, 6, 7, 8, 9, 10, 11, 12, 13, 14>>,
       <<0, 1, 2, 3, 255, 4, 5, 6, 7, 8, 9, 10, 11, 12, 13, 14>>,
       <<0, 1, 2, 3, 4, 255, 5, 6, 7, 8, 9, 10, 11, 12, 13, 14>>,
       <<0, 1, 2, 3, 4, 5, 255, 6, 7, 8, 9, 10, 11, 12, 13, 14>>,
       <<0, 1, 2, 3, 4, 5, 6, 255, 7, 8, 9, 10, 11, 12, 13, 14>>,
       <<0, 1, 2, 3, 4, 5, 6, 7, 255, 8, 9, 10, 11, 12, 13, 14>>,
       <<0, 1, 2, 3, 4, 5, 6, 7, 8, 255, 9, 10, 11, 12, 13, 14>>,
       <<0, 1, 2, 3, 4, 5, 6, 7, 8, 9, 255, 10, 11, 12, 13, 14>>,
       <<0, 1, 2, 3, 4, 5, 6, 7, 8, 9, 10, 255, 11, 12, 13, 14>>,
       <<0, 1, 2, 3, 4, 5, 6, 7, 8, 9, 10, 11, 255, 12, 13, 14>>,
       <<0, 1, 2, 3, 4, 5, 6, 7, 8, 9, 10, 11, 12, 255, 13, 14>>,
       <<0, 1, 2, 3, 4, 5, 6, 7, 8, 9, 10, 11, 12, 13, 255, 14>>,
       <<0, 1, 2, 3, 4, 5, 6, 7, 8, 9, 10, 11, 12, 13, 14, 255>> >>

\* vcombine_u8(vcreate_u8(0x0706050403020100), vcreate_u8(0x0F0E0D0C0B0A0908))
identity == <<0, 1, 2, 3, 4, 5, 6, 7, 8, 9, 10, 11, 12, 13, 14, 15>>

\* a row of the table shuffles v and puts the line feed where the row is 255
shuffle_with_line_feed(v, mask) ==
    vbsl(vceq(mask, vdup(255, 16)), vdup(10, 16), vqtbl1q(v, mask))

\* an unchecked 16-byte load at pointer q: a lane past the end of the
\* buffer holds whatever lies there, here the byte g
LoadRaw(mem, q, g) ==
    Lanes([x \in 1..16 |-> IF q + x <= Len(mem) THEN mem[q + x] ELSE g], 16)

\* bytes that may lie past the end of the input buffer
Garbage == {0, 238}

\* the bytes one run of k <= 32 input bytes stores at output_pos
line_feed_run(lower, upper, n) ==
    IF n = 32 THEN lower \o upper \o <<10>>
    ELSE IF n >= 16
    THEN shuffle_with_line_feed(lower, identity)
         \o shuffle_with_line_feed(upper, SHUFFLE_MASKS_NEON[n - 16 + 1])
    ELSE shuffle_with_line_feed(lower, SHUFFLE_MASKS_NEON[n + 1])
         \o shuffle_with_line_feed(vextq(lower, upper, 15), identity)

run_fits_strict(pos, n, len) == pos + n < len

\* while input_pos + k <= buffer.len()
run_fits(pos, n, len) == pos + n <= len

\* if k == 0 { return buffer.to_vec(); }
insert_line_feed_neon_k0_returns_empty ==
    /\ pc = "insert_line_feed_neon"
    /\ k = 0
    /\ neon_vec' = <<>>
    /\ stores' = <<>>
    /\ pc' = "insert_line_feed_scalar"
    /\ UNCHANGED <<ub, output, buffer, k, input_pos, output_pos, remaining,
                   s_input_pos, s_output, notLineFeed>>

\* insert_line_feed_neon with k == 0: return buffer.to_vec()
insert_line_feed_neon_k0 ==
    /\ pc = "insert_line_feed_neon"
    /\ k = 0
    /\ neon_vec' = buffer
    /\ stores' = <<>>
    /\ pc' = "insert_line_feed_scalar"
    /\ UNCHANGED <<ub, output, buffer, k, input_pos, output_pos, remaining,
                   s_input_pos, s_output, notLineFeed>>

\* one iteration of the loop with k <= 32: the two 16-byte loads are
\* unchecked and so are the stores (32 bytes, and the line feed behind
\* them when k = 32).  A load or a store that leaves its buffer is
\* undefined behaviour: the call goes on, or the process faults.  The bytes
\* stored past the end of the allocation land in the memory behind it: that
\* is sbuf when another caller's buffer lies there (sbuf is empty otherwise).
insert_line_feed_neon_run ==
    /\ pc = "insert_line_feed_neon"
    /\ k # 0
    /\ run_fits(input_pos, k, Len(buffer))
    /\ k <= 32
    /\ \E g1 \in Garbage, g2 \in Garbage :
         LET load_lo == input_pos + 16 > Len(buffer)
             has_up  == input_pos + 16 < Len(buffer)
             load_up == has_up /\ input_pos + 32 > Len(buffer)
             lower   == LoadRaw(buffer, input_pos, g1)
             upper   == IF has_up THEN LoadRaw(buffer, input_pos + 16, g2)
                                  ELSE vdup(0, 16)
             outside == output_pos + (IF k = 32 THEN 33 ELSE 32) > Len(output)
             now     == (IF load_lo \/ load_up THEN {"load"} ELSE {})
                        \cup (IF outside THEN {"store"} ELSE {})
         IN  /\ (~load_lo => g1 = 0)
             /\ (~load_up => g2 = 0)
             /\ \E bytes \in {line_feed_run(lower, upper, k)} :
                   /\ output' = Store(output, output_pos, bytes)
                   /\ sbuf' = Store(sbuf, output_pos - Len(output), bytes)
             /\ stores' = IF k = 32
                          THEN <<[at |-> output_pos, width |-> 16],
                                 [at |-> output_pos + 16, width |-> 16],
                                 [at |-> output_pos + 32, width |-> 1]>>
                          ELSE <<[at |-> output_pos, width |-> 16],
                                 [at |-> output_pos + 16, width |-> 16]>>
             /\ output_pos' = output_pos + k + 1
             /\ input_pos' = input_pos + k
             /\ ub' = ub \cup now
             /\ IF now # {}
                THEN pc' \in {"insert_line_feed_neon", "insert_line_feed_fault"}
                ELSE pc' = pc
    /\ UNCHANGED <<buffer, k, remaining, neon_vec, s_input_pos, s_output,
                   besideLineFeed>>

\* k > 32: let mut remaining = k
insert_line_feed_neon_long ==
    /\ pc = "insert_line_feed_neon"
    /\ k # 0
    /\ run_fits(input_pos, k, Len(buffer))
    /\ ~(k <= 32)
    /\ remaining' = k
    /\ stores' = <<>>
    /\ pc' = "insert_line_feed_neon_copy"
    /\ UNCHANGED <<ub, output, buffer, k, input_pos, output_pos, neon_vec,
                   s_input_pos, s_output, notLineFeed>>

\* while remaining >= 32: 32 bytes copied by two loads and two stores
insert_line_feed_neon_copy32 ==
    /\ pc = "insert_line_feed_neon_copy"
    /\ remaining >= 32
    /\ LET lower   == LoadRaw(buffer, input_pos, 0)
           upper   == LoadRaw(buffer, input_pos + 16, 0)
           outside == output_pos + 32 > Len(output)
           now     == (IF input_pos + 32 > Len(buffer) THEN {"load"} ELSE {})
                      \cup (IF outside THEN {"store"} ELSE {})
       IN  /\ output' = Store(output, output_pos, lower \o upper)
           /\ stores' = <<[at |-> output_pos, width |-> 16],
                          [at |-> output_pos + 16, width |-> 16]>>
           /\ ub' = ub \cup now
    /\ output_pos' = output_pos + 32
    /\ input_pos' = input_pos + 32
    /\ remaining' = remaining - 32
    /\ UNCHANGED <<pc, buffer, k, neon_vec, s_input_pos, s_output, notLineFeed>>

\* the rest of the run (copy_nonoverlapping) and its line feed
insert_line_feed_neon_rest ==
    /\ pc = "insert_line_feed_neon_copy"
    /\ ~(remaining >= 32)
    /\ LET rest    == SubSeq(buffer, input_pos + 1, input_pos + remaining)
           outside == output_pos + remaining + 1 > Len(output)
       IN  /\ output' = Store(output, output_pos, rest \o <<10>>)
           /\ stores' = (IF remaining > 0
                         THEN <<[at |-> output_pos, width |-> remaining]>>
                         ELSE <<>>)
                        \o <<[at |-> output_pos + remaining, width |-> 1]>>
           /\ ub' = ub \cup (IF outside THEN {"store"} ELSE {})
    /\ output_pos' = output_pos + remaining + 1
    /\ input_pos' = input_pos + remaining
    /\ pc' = "insert_line_feed_neon"
    /\ UNCHANGED <<buffer, k, remaining, neon_vec, s_input_pos, s_output,
                   notLineFeed>>

\* output.set_len(output_pos); output.extend_from_slice(&buffer[input_pos..])
insert_line_feed_neon_return ==
    /\ pc = "insert_line_feed_neon"
    /\ k # 0
    /\ ~run_fits(input_pos, k, Len(buffer))
    /\ neon_vec' = SubSeq(output, 1, output_pos)
                   \o SubSeq(buffer, input_pos + 1, Len(buffer))
    /\ stores' = <<>>
    /\ pc' = "insert_line_feed_scalar"
    /\ UNCHANGED <<ub, output, buffer, k, input_pos, output_pos, remaining,
                   s_input_pos, s_output, notLineFeed>>

\* insert_line_feed_scalar with k == 0
insert_line_feed_scalar_k0 ==
    /\ pc = "insert_line_feed_scalar"
    /\ k = 0
    /\ s_output' = buffer
    /\ pc' = "insert_line_feed_done"
    /\ UNCHANGED <<stores, ub, output, buffer, k, input_pos, output_pos,
                   remaining, neon_vec, s_input_pos, notLineFeed>>

\* one iteration of the loop of insert_line_feed_scalar
insert_line_feed_scalar_run ==
    /\ pc = "insert_line_feed_scalar"
    /\ k # 0
    /\ run_fits(s_input_pos, k, Len(buffer))
    /\ s_output' = Append(s_output \o SubSeq(buffer, s_input_pos + 1,
                                               s_input_pos + k), 10)
    /\ s_input_pos' = s_input_pos + k
    /\ UNCHANGED <<pc, stores, ub, output, buffer, k, input_pos, output_pos,
                   remaining, neon_vec, notLineFeed>>

\* output.extend_from_slice(&buffer[input_pos..]); output
insert_line_feed_scalar_return ==
    /\ pc = "insert_line_feed_scalar"
    /\ k # 0
    /\ ~run_fits(s_input_pos, k, Len(buffer))
    /\ s_output' = s_output \o SubSeq(buffer, s_input_pos + 1, Len(buffer))
    /\ pc' = "insert_line_feed_done"
    /\ UNCHANGED <<stores, ub, output, buffer, k, input_pos, output_pos,
                   remaining, neon_vec, s_input_pos, notLineFeed>>

(* The buffers of the line-feed calls: every length up to MaxLfLen and     *)
(* every period up to MaxK.  Lane x holds Tag(x), or, in the second        *)
(* family, a line feed, the byte 255 or Tag(x) in turn.                    *)
LineFeedBuffer(len, family) ==
    [x \in 1..len |->
        IF family = 0 THEN Tag(x - 1)
        ELSE IF x % 3 = 0 THEN 10
        ELSE IF x % 3 = 1 THEN 255
        ELSE Tag(x - 1)]

\* Vec::with_capacity(output_len): output_len bytes, not initialised
with_capacity(output_len) == FreshOutput(output_len)

InitLineFeed ==
    /\ pc = "insert_line_feed_neon"
    /\ \E len \in 0..MaxLfLen, family \in {0, 1} :
          buffer = LineFeedBuffer(len, family)
    /\ k \in 0..MaxK
    /\ output = IF k = 0 THEN <<>>
                ELSE with_capacity(Len(buffer) + Len(buffer) \div k)
    /\ input_pos = 0 /\ output_pos = 0 /\ remaining = 0 /\ neon_vec = <<>>
    /\ s_input_pos = 0 /\ s_output = <<>>
    /\ stores = <<>>
    /\ ub = {}
    /\ B = <<>> /\ buf = <<>> /\ rem = 0 /\ p = 0 /\ sbuf = <<>> /\ out = 0
    /\ out_ptr = 0 /\ neon_len = 0 /\ i = 0 /\ scalar_len = 0
    /\ input = <<>> /\ in_ptr = 0 /\ soutput = <<>> /\ out_idx = 0
    /\ ret = "none" /\ read_end = 0
    /\ OthersIdle
    /\ first = <<>>
    /\ waiting = "none"
    /\ ParsersIdle

NextLineFeed ==
    \/ insert_line_feed_neon_k0
    \/ insert_line_feed_neon_run
    \/ insert_line_feed_neon_long
    \/ insert_line_feed_neon_copy32
    \/ insert_line_feed_neon_rest
    \/ insert_line_feed_neon_return
    \/ insert_line_feed_scalar_k0
    \/ insert_line_feed_scalar_run
    \/ insert_line_feed_scalar_return

SpecLineFeed == InitLineFeed /\ [][NextLineFeed]_vars

(* A single call of each of the three transforms (compact, escape,         *)
(* periodic-insert), NEON and scalar: the compaction of the buffers that   *)
(* have 0x61 removed, the escape into a buffer of twice the input length,  *)
(* and the line-feed insertion.                                            *)
InitCursors ==
    \/ InitCompact /\ rem = 97
    \/ InitEscape /\ Len(output) = 2 * Len(input)
    \/ InitLineFeed

NextCursors ==
    \/ NextCompact
    \/ NextEscape
    \/ NextLineFeed

SpecCursors == InitCursors /\ [][NextCursors]_vars

(* Two callers on disjoint buffers, without locks: one runs                *)
(* insert_line_feed_neon, the other remove_chars_from_strings_scalar on a  *)
(* buffer that lies in memory right behind the first caller's Vec.  Their  *)
(* steps interleave in any order: pc is the position of the caller that    *)
(* runs, waiting that of the other, and a switch exchanges them.  The      *)
(* tables are definitions: no step writes them.                            *)
callState == <<B, first, stores, out_ptr, neon_len, i, scalar_len, ub,
               compactVars, escapeVars, lfVars, scanVars, parseVars, otherVars>>

switch_caller ==
    /\ waiting # "none"
    /\ pc # "insert_line_feed_fault"
    /\ pc' = waiting
    /\ waiting' = pc
    /\ UNCHANGED callState

InitTwoCallers ==
    /\ pc = "insert_line_feed_neon"
    /\ waiting = "remove_chars_from_strings_scalar"
    /\ \E len \in 0..MaxCallerLen : buffer = LineFeedBuffer(len, 0)
    /\ k \in 0..MaxCallerK
    /\ output = IF k = 0 THEN <<>>
                ELSE with_capacity(Len(buffer) + Len(buffer) \div k)
    /\ rem \in RemBytes
    /\ \E len \in 0..MaxNeighbourLen, m \in 0..7 :
          B = CompactBuffer(len, rem, m, 0)
    /\ sbuf = B
    /\ input_pos = 0 /\ output_pos = 0 /\ remaining = 0 /\ neon_vec = <<>>
    /\ s_input_pos = 0 /\ s_output = <<>>
    /\ i = 0 /\ out = 0 /\ scalar_len = 0
    /\ stores = <<>>
    /\ ub = {}
    /\ buf = <<>> /\ p = 0 /\ out_ptr = 0 /\ neon_len = 0
    /\ input = <<>> /\ in_ptr = 0 /\ soutput = <<>> /\ out_idx = 0
    /\ ret = "none" /\ read_end = 0
    /\ OthersIdle
    /\ first = <<>>
    /\ ParsersIdle

NextTwoCallers ==
    \/ insert_line_feed_neon_k0
    \/ insert_line_feed_neon_run
    \/ insert_line_feed_neon_return
    \/ remove_chars_from_strings_scalar_step
    \/ remove_chars_from_strings_scalar_return
    \/ switch_caller

SpecTwoCallers == InitTwoCallers /\ [][NextTwoCallers]_vars

-----------------------------------------------------------------------------
(* json_escape_SWAR.rs.  A u64 is the sequence of its 8 bytes, lowest      *)
(* first, which is also what u64::from_le_bytes reads from the buffer.     *)

\* byte < 32 || byte == 34 || byte == 92
needs_json_escape_scalar(byte) == byte < 32 \/ byte = 34 \/ byte = 92

\* buffer.iter().any(|&b| needs_json_escape_scalar(b))
has_json_escapable_byte_scalar(b) ==
    \E x \in 1..Len(b) : needs_json_escape_scalar(b[x])

\* the u64 whose 8 bytes all are b (0x2020202020202020 for b = 0x20)
Splat(b) == vdup(b, 8)

RECURSIVE Borrow(_, _, _)
\* the borrow that x - y takes into byte n (1-based) from the bytes below
Borrow(x, y, n) ==
    IF n = 1 THEN 0
    ELSE IF x[n - 1] - y[n - 1] - Borrow(x, y, n - 1) < 0 THEN 1 ELSE 0

\* u64::wrapping_sub
wrapping_sub(x, y) ==
    Lanes([n \in 1..8 |-> (x[n] - y[n] - Borrow(x, y, n) + 256) % 256], 8)

\* the u64 operators !, &, |, ^
not64(x) == vmvn(x)
and64(x, y) == Lanes([n \in 1..8 |-> AndByte(x[n], y[n])], 8)
or64(x, y) == Lanes([n \in 1..8 |-> OrByte(x[n], y[n])], 8)
xor64(x, y) == Lanes([n \in 1..8 |-> XorByte(x[n], y[n])], 8)

has_json_escapable_byte_swar_unmasked(x) ==
    LET lt32 == wrapping_sub(x, Splat(32))
        eq34 == wrapping_sub(xor64(x, Splat(34)), Splat(1))
        eq92 == wrapping_sub(xor64(x, Splat(92)), Splat(1))
    IN  and64(or64(or64(lt32, eq34), eq92), Splat(128)) # Splat(0)

has_json_escapable_byte_swar_without_eq92(x) ==
    LET is_ascii == and64(Splat(128), not64(x))
        lt32  == wrapping_sub(x, Splat(32))
        eq34  == wrapping_sub(xor64(x, Splat(34)), Splat(1))
    IN  and64(or64(lt32, eq34), is_ascii) # Splat(0)

has_json_escapable_byte_swar_below_31(x) ==
    LET is_ascii == and64(Splat(128), not64(x))
        lt32  == wrapping_sub(x, Splat(31))
        eq34  == wrapping_sub(xor64(x, Splat(34)), Splat(1))
        eq92  == wrapping_sub(xor64(x, Splat(92)), Splat(1))
    IN  and64(or64(or64(lt32, eq34), eq92), is_ascii) # Splat(0)

has_json_escapable_byte_swar(x) ==
    LET is_ascii == and64(Splat(128), not64(x))
        lt32  == wrapping_sub(x, Splat(32))
        sub34 == xor64(x, Splat(34))
        eq34  == wrapping_sub(sub34, Splat(1))
        sub92 == xor64(x, Splat(92))
        eq92  == wrapping_sub(sub92, Splat(1))
    IN  and64(or64(or64(lt32, eq34), eq92), is_ascii) # Splat(0)

has_json_escapable_byte_word_without_return ==
    /\ pc = "has_json_escapable_byte"
    /\ i + 8 <= Len(buffer)
    /\ ret' = IF has_json_escapable_byte_swar(Load(buffer, i, 8)) THEN TRUE
              ELSE ret
    /\ i' = i + 8
    /\ read_end' = i + 8
    /\ UNCHANGED <<pc, buffer, notScan>>

\* one iteration of the word loop of has_json_escapable_byte
has_json_escapable_byte_word ==
    /\ pc = "has_json_escapable_byte"
    /\ i + 8 <= Len(buffer)
    /\ LET chunk == Load(buffer, i, 8)
       IN  IF has_json_escapable_byte_swar(chunk)
           THEN /\ ret' = TRUE
                /\ pc' = "has_json_escapable_byte_done"
                /\ UNCHANGED i
           ELSE /\ i' = i + 8
                /\ UNCHANGED <<ret, pc>>
    /\ read_end' = i + 8
    /\ UNCHANGED <<buffer, notScan>>

\* the index (1-based) at which any() stops in the slice from `from` on
FirstHit(b, from) ==
    LET hits == {x \in (from + 1)..Len(b) : needs_json_escape_scalar(b[x])}
    IN  IF hits = {} THEN Len(b) ELSE CHOOSE x \in hits : \A y \in hits : x <= y

\* leftovers: buffer[i..].iter().any(|&b| needs_json_escape_scalar(b))
has_json_escapable_byte_leftovers ==
    /\ pc = "has_json_escapable_byte"
    /\ ~(i + 8 <= Len(buffer))
    /\ ret' = has_json_escapable_byte_scalar(SubSeq(buffer, i + 1, Len(buffer)))
    /\ read_end' = IF i < Len(buffer) THEN FirstHit(buffer, i) ELSE read_end
    /\ pc' = "has_json_escapable_byte_done"
    /\ UNCHANGED <<buffer, i, notScan>>

(* The buffers of the scan: every single byte, and buffers of every length *)
(* up to MaxScanLen that hold one background byte except for two adjacent  *)
(* lanes, which hold every pair of the probe bytes (the bytes at and       *)
(* beside the three thresholds, with and without the top bit).             *)
ProbeBytes == {0, 31, 32, 33, 34, 35, 91, 92, 93, 127, 128, 159, 162, 220, 255}

BackgroundBytes == {32, 35, 93, 255}

ScanBuffer(len, bg, at, u, v) ==
    [x \in 1..len |-> IF x = at THEN u ELSE IF x = at + 1 THEN v ELSE bg]

InitScan ==
    /\ pc = "has_json_escapable_byte"
    /\ \/ \E b \in Byte : buffer = <<b>>
       \/ \E len \in 0..MaxScanLen, bg \in BackgroundBytes, at \in 1..MaxScanLen,
             u \in ProbeBytes, v \in ProbeBytes :
             /\ at <= len
             /\ buffer = ScanBuffer(len, bg, at, u, v)
       \/ buffer = <<>>
    /\ i = 0
    /\ ret = "none" /\ read_end = 0
    /\ OthersIdle
    /\ first = <<>>
    /\ waiting = "none"
    /\ ParsersIdle
    /\ stores = <<>>
    /\ ub = {}
    /\ B = <<>> /\ buf = <<>> /\ rem = 0 /\ p = 0 /\ sbuf = <<>> /\ out = 0
    /\ out_ptr = 0 /\ neon_len = 0 /\ scalar_len = 0
    /\ input = <<>> /\ output = <<>> /\ in_ptr = 0
    /\ soutput = <<>> /\ out_idx = 0
    /\ k = 0 /\ input_pos = 0 /\ output_pos = 0
    /\ remaining = 0 /\ neon_vec = <<>> /\ s_input_pos = 0 /\ s_output = <<>>

NextScan ==
    \/ has_json_escapable_byte_word
    \/ has_json_escapable_byte_leftovers

SpecScan == InitScan /\ [][NextScan]_vars

(* has_json_escapable_byte_swar called on a word by itself, as the tests   *)
(* call it on u64::from_le_bytes of 8 bytes: buffer holds these 8 bytes.   *)
(* The words are those of one background byte with every triple of the     *)
(* probe bytes in every three adjacent byte positions, and with each of    *)
(* the 256 bytes in each byte position.                                    *)
has_json_escapable_byte_swar_call ==
    /\ pc = "has_json_escapable_byte_swar"
    /\ ret' = has_json_escapable_byte_swar(buffer)
    /\ pc' = "has_json_escapable_byte_swar_done"
    /\ UNCHANGED <<buffer, i, read_end, notScan>>

SwarWord(bg, at, u, v, w) ==
    [n \in 1..8 |-> IF n = at THEN u
                    ELSE IF n = at + 1 THEN v
                    ELSE IF n = at + 2 THEN w
                    ELSE bg]

InitSwar ==
    /\ pc = "has_json_escapable_byte_swar"
    /\ \/ \E bg \in BackgroundBytes, at \in 1..6,
             u \in ProbeBytes, v \in ProbeBytes, w \in ProbeBytes :
             buffer = SwarWord(bg, at, u, v, w)
       \/ \E bg \in BackgroundBytes, at \in 1..8, b \in Byte :
             buffer = [SwarWord(bg, 1, bg, bg, bg) EXCEPT ![at] = b]
    /\ i = 0
    /\ ret = "none" /\ read_end = 0
    /\ OthersIdle
    /\ first = <<>>
    /\ waiting = "none"
    /\ ParsersIdle
    /\ stores = <<>>
    /\ ub = {}
    /\ B = <<>> /\ buf = <<>> /\ rem = 0 /\ p = 0 /\ sbuf = <<>> /\ out = 0
    /\ out_ptr = 0 /\ neon_len = 0 /\ scalar_len = 0
    /\ input = <<>> /\ output = <<>> /\ in_ptr = 0
    /\ soutput = <<>> /\ out_idx = 0
    /\ k = 0 /\ input_pos = 0 /\ output_pos = 0
    /\ remaining = 0 /\ neon_vec = <<>> /\ s_input_pos = 0 /\ s_output = <<>>

NextSwar == has_json_escapable_byte_swar_call

SpecSwar == InitSwar /\ [][NextSwar]_vars

(* The scan used as the guard of the escape: has_json_escapable_byte runs  *)
(* on a buffer and then escape_json_neon and escape_json_scalar run on the *)
(* same buffer, with an output capacity of twice its length.               *)
GuardBytes == {31, 33, 34, 35, 92, 93, 162, 220}

GuardBackgrounds == {32, 255}

escape_after_scan ==
    /\ pc = "has_json_escapable_byte_done"
    /\ input = buffer
    /\ i' = 0
    /\ pc' = "escape_json_neon"
    /\ UNCHANGED <<buffer, ret, read_end, notScan>>

InitGuard ==
    /\ pc = "has_json_escapable_byte"
    /\ \/ \E len \in 0..MaxGuardLen, bg \in GuardBackgrounds,
             at \in 1..MaxGuardLen, u \in GuardBytes, v \in GuardBytes :
             /\ at <= len
             /\ buffer = ScanBuffer(len, bg, at, u, v)
       \/ buffer = <<>>
    /\ input = buffer
    /\ output = FreshOutput(2 * Len(buffer))
    /\ soutput = output
    /\ i = 0
    /\ ret = "none" /\ read_end = 0
    /\ OthersIdle
    /\ first = <<>>
    /\ waiting = "none"
    /\ ParsersIdle
    /\ stores = <<>>
    /\ ub = {}
    /\ B = <<>> /\ buf = <<>> /\ rem = 0 /\ p = 0 /\ sbuf = <<>> /\ out = 0
    /\ out_ptr = 0 /\ neon_len = 0 /\ scalar_len = 0
    /\ in_ptr = 0 /\ out_idx = 0
    /\ k = 0 /\ input_pos = 0 /\ output_pos = 0
    /\ remaining = 0 /\ neon_vec = <<>> /\ s_input_pos = 0 /\ s_output = <<>>

NextGuard ==
    \/ NextScan
    \/ escape_after_scan
    \/ NextEscape

SpecGuard == InitGuard /\ [][NextGuard]_vars

-----------------------------------------------------------------------------
(* Properties of the compaction calls *)

\* the bytes of b that differ from r, in their order
Kept(b, r) == SelectSeq(b, LAMBDA x : x # r)

NeonReturned == pc \in {"remove_chars_from_strings_scalar", "compact_done"}

\* C1: remove_byte_neon(B, r) returns the number of bytes of B not equal
\* to r, and the first that-many bytes of the buffer are the bytes of B not
\* equal to r in their original order; an empty or all-r buffer gives 0,
\* a buffer without r comes back at full length and unchanged.
C1_RemoveByteNeonCompacts ==
    NeonReturned =>
        /\ neon_len = Len(Kept(B, rem))
        /\ SubSeq(buf, 1, neon_len) = Kept(B, rem)
        /\ (\A x \in 1..Len(B) : B[x] = rem) => neon_len = 0
        /\ (\A x \in 1..Len(B) : B[x] # rem) => neon_len = Len(B) /\ buf = B

C1_Witness ==
    /\ NeonReturned
    /\ rem >= 128
    /\ Len(B) > 16 /\ Len(B) % 16 # 0
    /\ 0 < neon_len /\ neon_len < Len(B)

\* C7: during in-place compaction the output cursor never passes the
\* input cursor, and every store (each 8-byte store of compress8 at its
\* full width) ends at or before the first unread byte and inside the
\* buffer.
C7_OutputBehindInput ==
    /\ out_ptr <= p
    /\ out <= i
    /\ \A s \in 1..Len(stores) :
          /\ stores[s].at + stores[s].width
                <= (IF pc = "remove_byte_neon" THEN p ELSE i)
          /\ stores[s].at + stores[s].width <= Len(B)

C7_Witness ==
    /\ pc = "remove_byte_neon"
    /\ p = 32
    /\ Len(stores) = 2 /\ stores[1].width = 8 /\ stores[2].width = 8
    /\ stores[2].at - stores[1].at < 8
    /\ 0 < out_ptr /\ out_ptr < p

\* C10: remove_byte_neon and remove_chars_from_strings_scalar return the
\* same length and leave the same bytes in the first `length` positions.
C10_NeonMatchesScalar ==
    pc = "compact_done" =>
        /\ neon_len = scalar_len
        /\ SubSeq(buf, 1, neon_len) = SubSeq(sbuf, 1, scalar_len)

C10_Witness ==
    /\ pc = "compact_done"
    /\ Len(B) = 33
    /\ 0 < scalar_len /\ scalar_len < Len(B)
    /\ \E x \in 1..8 : B[x] = rem
    /\ \E x \in 1..8 : B[x] # rem

\* C13: compact is idempotent: called again with the same byte on the kept
\* prefix a first call left, remove_byte_neon and
\* remove_chars_from_strings_scalar return the length of that prefix and
\* leave it unchanged.
C13_CompactIdempotent ==
    (pc = "compact_done" /\ first # <<>>) =>
        /\ neon_len = Len(first[1])
        /\ buf = first[1]
        /\ scalar_len = Len(first[2])
        /\ sbuf = first[2]

\* the second call ran on a prefix of a block and a tail that a first call
\* cut out of a longer buffer
C13_Witness ==
    /\ pc = "compact_done"
    /\ first # <<>>
    /\ Len(first[1]) > 16 /\ Len(first[1]) % 16 # 0
    /\ Len(first[1]) < Len(first[3])
    /\ buf = first[1]

-----------------------------------------------------------------------------
(* Properties of the escape calls *)

RECURSIVE Escaped(_)
\* b with one backslash inserted before every quote and every backslash
Escaped(b) ==
    IF b = <<>> THEN <<>>
    ELSE (IF Head(b) = 34 \/ Head(b) = 92 THEN <<92, Head(b)>> ELSE <<Head(b)>>)
         \o Escaped(Tail(b))

Designated(b) == {x \in 1..Len(b) : b[x] = 34 \/ b[x] = 92}

CapacityOk == Len(output) >= 2 * Len(input)

\* C2: with an output capacity >= 2 * |B|, escape_json_scalar and
\* escape_json_neon write B with one backslash before every quote and every
\* backslash, every other byte copied in order, and return
\* |B| + the number of quotes + the number of backslashes.
C2_EscapeOutput ==
    CapacityOk =>
        /\ pc \in {"escape_json_scalar", "escape_done"} =>
              /\ neon_len = Len(input) + Cardinality(Designated(input))
              /\ SubSeq(output, 1, neon_len) = Escaped(input)
        /\ pc = "escape_done" =>
              /\ scalar_len = Len(input) + Cardinality(Designated(input))
              /\ SubSeq(soutput, 1, scalar_len) = Escaped(input)

C2_Witness ==
    /\ pc = "escape_done"
    /\ CapacityOk
    /\ Len(input) = 17
    /\ \E x \in 1..8 : input[x] = 34
    /\ \E x \in 1..8 : input[x] = 92
    /\ \E x \in 1..8 : input[x] \notin {34, 92}
    /\ input[17] \in {34, 92}

\* C5: with an output capacity >= 2 * |B|, the write cursor never passes
\* the capacity and every store, at its full width (8 bytes for each of the
\* two vector stores of escape_8bytes), lies inside the output buffer.
C5_EscapeStoresInCapacity ==
    CapacityOk =>
        /\ out_ptr <= Len(output)
        /\ out_idx <= Len(soutput)
        /\ \A s \in 1..Len(stores) :
              stores[s].at + stores[s].width <= Len(output)
        /\ ub = {}
        /\ pc \notin {"escape_fault", "escape_panic"}

\* the last chunk of an input made of designated bytes only: the second
\* vector store ends exactly at the capacity
C5_Witness ==
    /\ pc = "escape_json_neon"
    /\ Len(output) = 2 * Len(input)
    /\ in_ptr = Len(input)
    /\ Len(stores) = 2 /\ stores[2].width = 8
    /\ stores[2].at + stores[2].width = Len(output)

\* C6: with an output capacity below 2 * |B| the call fails with
\* BufferTooSmall before any write: it returns no length, nothing is
\* written to the output buffer and nothing is written outside it.
C6_BufferTooSmall ==
    ~CapacityOk =>
        /\ output = FreshOutput(Len(output))
        /\ soutput = FreshOutput(Len(soutput))
        /\ ub = {}
        /\ pc \notin {"escape_json_scalar", "escape_done", "escape_panic",
                      "escape_fault"}

\* C8: with output buffers of capacity 2 * |B|, escape_json_neon returns
\* the length escape_json_scalar returns and the first that-many output
\* bytes are the same.
C8_EscapeNeonMatchesScalar ==
    (pc = "escape_done" /\ Len(output) = 2 * Len(input)) =>
        /\ neon_len = scalar_len
        /\ SubSeq(output, 1, neon_len) = SubSeq(soutput, 1, scalar_len)

\* two whole chunks and a scalar tail, designated and plain bytes mixed
C8_Witness ==
    /\ pc = "escape_done"
    /\ Len(output) = 2 * Len(input)
    /\ Len(input) > 16
    /\ Len(input) < scalar_len /\ scalar_len < 2 * Len(input)

RECURSIVE unescape(_)
\* the pass over s from left to right that, at a backslash followed by a
\* quote or a backslash, drops the backslash and copies the following byte
\* without looking at it again
unescape(s) ==
    IF s = <<>> THEN <<>>
    ELSE IF Head(s) = 92 /\ Len(s) >= 2 /\ s[2] \in {34, 92}
         THEN <<s[2]>> \o unescape(SubSeq(s, 3, Len(s)))
         ELSE <<Head(s)>> \o unescape(Tail(s))

RECURSIVE remove_preceding_backslashes(_)
\* s without every backslash that immediately precedes a quote or a
\* backslash of s
remove_preceding_backslashes(s) ==
    IF s = <<>> THEN <<>>
    ELSE (IF Head(s) = 92 /\ Len(s) >= 2 /\ s[2] \in {34, 92}
          THEN <<>> ELSE <<Head(s)>>)
         \o remove_preceding_backslashes(Tail(s))

\* C11 (as amended): the pass that goes through escape(B) from left to
\* right and, at each backslash followed by a quote or a backslash, removes
\* the backslash and keeps the following byte without examining it,
\* recovers B exactly, for the scalar and for the NEON output.
C11_RoundTrip ==
    (pc = "escape_done" /\ CapacityOk) =>
        /\ unescape(SubSeq(soutput, 1, scalar_len)) = input
        /\ unescape(SubSeq(output, 1, neon_len)) = input

\* consecutive backslashes in the first chunk and a trailing backslash
C11_Witness ==
    /\ pc = "escape_done"
    /\ CapacityOk
    /\ Len(input) = 9
    /\ \E x \in 1..7 : input[x] = 92 /\ input[x + 1] = 92
    /\ \E x \in 1..8 : input[x] \notin {34, 92}
    /\ input[9] = 92

\* C11 (as stated): removing every backslash of escape(B) that immediately
\* precedes a quote or a backslash recovers B exactly.
C11_RoundTripEveryBackslash ==
    (pc = "escape_done" /\ CapacityOk) =>
        remove_preceding_backslashes(SubSeq(soutput, 1, scalar_len)) = input

-----------------------------------------------------------------------------
(* Properties of the line-feed calls *)

\* C3: for k > 0, insert_line_feed_scalar returns N + N \div k bytes: the
\* input bytes in their order, with one line feed after each complete run
\* of k input bytes and none after a shorter final run.
C3_ScalarLineFeed ==
    (pc = "insert_line_feed_done" /\ k > 0) =>
        LET N == Len(buffer)
        IN  /\ Len(s_output) = N + N \div k
            /\ \A j \in 1..N : s_output[j + (j - 1) \div k] = buffer[j]
            /\ \A r \in 1..(N \div k) : s_output[r * (k + 1)] = 10

\* ABCDEFGHIJ with k = 3: three complete runs and a final run of one byte
C3_Witness ==
    /\ pc = "insert_line_feed_done"
    /\ k = 3
    /\ Len(buffer) = 10
    /\ Len(s_output) = 13
    /\ s_output[4] = 10 /\ s_output[13] = buffer[10]

\* C9: for every buffer and every period, insert_line_feed_neon returns
\* the byte vector insert_line_feed_scalar returns, whatever lies beyond the
\* end of the buffer: the call returns, and its result is the scalar one.
C9_LineFeedNeonMatchesScalar ==
    /\ pc # "insert_line_feed_fault"
    /\ pc = "insert_line_feed_done" => neon_vec = s_output

\* what remains of C9 in the code: a call that does not fault returns the
\* scalar result
LineFeedNeonMatchesScalarUnlessFault ==
    pc = "insert_line_feed_done" => neon_vec = s_output

\* s without its bytes at the positions n, 2n, 3n, ... (counted from 1)
remove_every(s, n) ==
    LET keep == {x \in 1..Len(s) : x % n # 0}
    IN  [j \in 1..Cardinality(keep) |->
            s[CHOOSE x \in keep : Cardinality({y \in keep : y <= x}) = j]]

\* C12: for k > 0, insert_line_feed_scalar and insert_line_feed_neon return
\* a vector from which removing every (k+1)-th byte recovers the buffer.
C12_RemoveSeparatorsRecovers ==
    k > 0 =>
        /\ pc # "insert_line_feed_fault"
        /\ pc \in {"insert_line_feed_scalar", "insert_line_feed_done"} =>
              remove_every(neon_vec, k + 1) = buffer
        /\ pc = "insert_line_feed_done" =>
              remove_every(s_output, k + 1) = buffer

\* what remains of C12 in the code: the law holds of the scalar result and
\* of the result of every NEON call that does not fault
RemoveSeparatorsRecoversUnlessFault ==
    k > 0 =>
        /\ pc \in {"insert_line_feed_scalar", "insert_line_feed_done"} =>
              remove_every(neon_vec, k + 1) = buffer
        /\ pc = "insert_line_feed_done" =>
              remove_every(s_output, k + 1) = buffer

\* C14: with k = 0 insert_line_feed_neon and insert_line_feed_scalar return
\* a vector equal to the buffer, the empty buffer included: each call
\* returns in its first step, before any division by k and without entering
\* a loop, so no cursor moves and nothing is loaded or stored.
C14_PeriodZeroIsIdentity ==
    k = 0 =>
        /\ pc \in {"insert_line_feed_neon", "insert_line_feed_scalar",
                   "insert_line_feed_done"}
        /\ pc = "insert_line_feed_neon" => ENABLED insert_line_feed_neon_k0
        /\ pc = "insert_line_feed_scalar" =>
              /\ neon_vec = buffer
              /\ ENABLED insert_line_feed_scalar_k0
        /\ pc = "insert_line_feed_done" =>
              /\ neon_vec = buffer
              /\ s_output = buffer
        /\ input_pos = 0 /\ output_pos = 0 /\ s_input_pos = 0
        /\ stores = <<>> /\ ub = {}

\* both calls have returned a buffer that holds line feeds of its own
C14_Witness ==
    /\ k = 0
    /\ pc = "insert_line_feed_done"
    /\ Len(buffer) > 32
    /\ \E x \in 1..Len(buffer) : buffer[x] = 10
    /\ s_output = buffer

RECURSIVE with_line_feeds(_, _)
\* b with a line feed after each complete run of n bytes
with_line_feeds(b, n) ==
    IF n = 0 \/ Len(b) < n THEN b
    ELSE SubSeq(b, 1, n) \o <<10>> \o with_line_feeds(SubSeq(b, n + 1, Len(b)), n)

BothReturned ==
    {pc, waiting} = {"insert_line_feed_scalar", "compact_done"}

\* C17: two callers that run transforms on disjoint buffers, their steps
\* interleaved in any order, each obtain the result they obtain alone: the
\* one the buffer with its line feeds, the other the compacted buffer.
C17_CallersDoNotInterfere ==
    BothReturned =>
        /\ neon_vec = with_line_feeds(buffer, k)
        /\ scalar_len = Len(Kept(B, rem))
        /\ SubSeq(sbuf, 1, scalar_len) = Kept(B, rem)

\* what remains of C17 in the code: the callers obtain their own results
\* whenever no store has left the buffer of its caller
CallersDoNotInterfereUnlessOutOfBounds ==
    (BothReturned /\ "store" \notin ub) =>
        /\ neon_vec = with_line_feeds(buffer, k)
        /\ scalar_len = Len(Kept(B, rem))
        /\ SubSeq(sbuf, 1, scalar_len) = Kept(B, rem)

-----------------------------------------------------------------------------
(* Properties of the scan *)

\* C4: has_json_escapable_byte returns what the byte-at-a-time
\* has_json_escapable_byte_scalar returns: true iff some byte of the buffer
\* is < 32, == 34 or == 92.
C4_ScanMatchesScalar ==
    pc = "has_json_escapable_byte_done" =>
        /\ ret = has_json_escapable_byte_scalar(buffer)
        /\ ret = (\E x \in 1..Len(buffer) :
                    buffer[x] < 32 \/ buffer[x] = 34 \/ buffer[x] = 92)

\* a clean buffer of one word and a remainder, with bytes >= 0x80, whose
\* word loop found nothing
C4_Witness ==
    /\ pc = "has_json_escapable_byte_done"
    /\ Len(buffer) > 8 /\ Len(buffer) % 8 # 0
    /\ i = 8
    /\ \E x \in 1..8 : buffer[x] >= 128
    /\ ret = FALSE

\* C15: the scan is a sound guard of the escape: when
\* has_json_escapable_byte returns false for a buffer, escape_json_scalar
\* and escape_json_neon return the length of the buffer and their output
\* equals the buffer byte for byte.
C15_ScanGuardsEscape ==
    (pc = "escape_done" /\ ret = FALSE) =>
        /\ scalar_len = Len(buffer)
        /\ SubSeq(soutput, 1, scalar_len) = buffer
        /\ neon_len = Len(buffer)
        /\ SubSeq(output, 1, neon_len) = buffer

\* a buffer of one word and a remainder with bytes >= 0x80 and a byte next
\* to a threshold, which the scan found clean and the escape then copied
C15_Witness ==
    /\ pc = "escape_done"
    /\ ret = FALSE
    /\ Len(buffer) = 9
    /\ \E x \in 1..8 : buffer[x] >= 128
    /\ \E x \in 1..8 : buffer[x] \in {33, 35, 93}
    /\ scalar_len = 9

\* C16: has_json_escapable_byte_swar(x) is true iff one of the 8 bytes of x
\* is < 32, == 34 or == 92, whatever bytes >= 0x80 the word holds and
\* whatever borrows the whole-word subtractions pass from byte to byte.
C16_SwarIsPerByte ==
    pc = "has_json_escapable_byte_swar_done" =>
        ret = (\E n \in 1..8 :
                 buffer[n] < 32 \/ buffer[n] = 34 \/ buffer[n] = 92)

\* a word whose only special byte sits between a byte >= 0x80 below it and
\* the byte 0x20 above it, into which its borrow runs
C16_Witness ==
    /\ pc = "has_json_escapable_byte_swar_done"
    /\ ret = TRUE
    /\ \E n \in 2..7 :
          /\ buffer[n - 1] >= 128
          /\ needs_json_escape_scalar(buffer[n])
          /\ buffer[n + 1] = 32
          /\ \A m \in (1..8) \ {n} : ~needs_json_escape_scalar(buffer[m])

-----------------------------------------------------------------------------
(* Properties of the cursor pair *)

\* the positions at which a driver loop tests its condition
LoopHeads ==
    {"remove_byte_neon", "remove_chars_from_strings_scalar",
     "escape_json_neon", "escape_json_scalar",
     "insert_line_feed_neon", "insert_line_feed_scalar"}

\* the input position of the running call at the start of the current
\* iteration of its driver loop (inside a run of k > 32 bytes, k - remaining
\* bytes of the iteration are already copied)
InputCursor ==
    CASE pc = "remove_byte_neon" -> p
      [] pc = "remove_chars_from_strings_scalar" -> i
      [] pc = "escape_json_neon" -> in_ptr
      [] pc = "escape_json_scalar" -> i
      [] pc = "insert_line_feed_neon" -> input_pos
      [] pc = "insert_line_feed_neon_copy" -> input_pos + remaining - k
      [] pc = "insert_line_feed_scalar" -> s_input_pos
      [] OTHER -> 0

OutputCursor ==
    CASE pc = "remove_byte_neon" -> out_ptr
      [] pc = "remove_chars_from_strings_scalar" -> out
      [] pc = "escape_json_neon" -> out_ptr
      [] pc = "escape_json_scalar" -> out_idx
      [] pc = "insert_line_feed_neon" -> output_pos
      [] pc = "insert_line_feed_neon_copy" -> output_pos + remaining - k
      [] pc = "insert_line_feed_scalar" -> Len(s_output)
      [] OTHER -> 0

\* a step that completes one iteration of a driver loop
DriverStep ==
    \/ pc \in LoopHeads /\ pc' = pc
    \/ pc = "insert_line_feed_neon_copy" /\ pc' = "insert_line_feed_neon"

\* the bytes a step of a compaction loop reads
CompactStepReads ==
    CASE pc = "remove_byte_neon" ->
             IF p + 16 <= Len(buf) THEN Load(buf, p, 16) ELSE <<buf[p + 1]>>
      [] pc = "remove_chars_from_strings_scalar" -> <<sbuf[i + 1]>>
      [] OTHER -> <<>>

\* C18 (as stated): at every step of the driver loop of a transform both
\* the input position and the output position are strictly greater than
\* before the step.
C18_CursorsStrictlyIncrease ==
    [][DriverStep =>
          /\ InputCursor' > InputCursor
          /\ OutputCursor' > OutputCursor]_vars

\* C18 (as amended): at every step of the driver loop the input position
\* is strictly greater than before and the output position is not smaller;
\* the output position is strictly greater at every step of escape and of
\* periodic-insert, and at a step of compact exactly when the step keeps
\* a byte.
C18_CursorsAdvance ==
    [][DriverStep =>
          /\ InputCursor' > InputCursor
          /\ OutputCursor' >= OutputCursor
          /\ pc \notin {"remove_byte_neon", "remove_chars_from_strings_scalar"}
                => OutputCursor' > OutputCursor
          /\ pc \in {"remove_byte_neon", "remove_chars_from_strings_scalar"}
                => (OutputCursor' > OutputCursor
                      <=> \E n \in 1..Len(CompactStepReads) :
                             CompactStepReads[n] # rem)]_vars

\* remove_byte_neon has gone through two blocks of which it kept nothing:
\* the input position has moved twice and the output position has not
C18_Witness ==
    /\ pc = "remove_byte_neon"
    /\ p = 32
    /\ out_ptr = 0
    /\ Len(B) > 32
    /\ \A n \in 1..32 : B[n] = rem

-----------------------------------------------------------------------------
\* timestamp_parser_neon.rs

\* vsubq_u8: lane-wise difference, wrapping at 256
vsubq_u8(a, b) ==
    Lanes([x \in 1..Len(a) |-> (a[x] - b[x] + 256) % 256], Len(a))

\* vqsubq_u8, vqsubq_u16: lane-wise difference, saturating at 0
vqsub(a, b) ==
    Lanes([x \in 1..Len(a) |-> IF a[x] > b[x] THEN a[x] - b[x] ELSE 0],
          Len(a))

\* vreinterpretq_u16_u8: eight 16-bit lanes, each from two bytes, the low
\* byte first
vreinterpretq_u16_u8(v) ==
    Lanes([x \in 1..8 |-> v[2 * x - 1] + 256 * v[2 * x]], 8)

\* vandq_u16: lane-wise and of 16-bit lanes
vandq_u16(a, b) ==
    Lanes([x \in 1..Len(a) |->
              AndByte(a[x] % 256, b[x] % 256)
              + 256 * AndByte(a[x] \div 256, b[x] \div 256)], Len(a))

\* vshrq_n_u16: lane-wise logical shift right
vshrq_n_u16(a, n) == Lanes([x \in 1..Len(a) |-> a[x] \div Pow2(n)], Len(a))

\* vmlaq_n_u16: a + b * c in every 16-bit lane, wrapping at 65536
vmlaq_n_u16(a, b, c) ==
    Lanes([x \in 1..Len(a) |-> (a[x] + b[x] * c) % 65536], Len(a))

\* vmaxvq_u8: the greatest lane
vmaxvq_u8(v) ==
    CHOOSE m \in {v[x] : x \in 1..Len(v)} : \A x \in 1..Len(v) : v[x] <= m

\* the per-digit ceilings of validate_timestamp_scalar
digit_limits == <<9, 9, 9, 9, 1, 9, 3, 9, 2, 9, 5, 9, 5, 9>>

\* validate_timestamp_scalar: fourteen ASCII digits, each within its
\* ceiling, month 1..12, day 1..31, hour <= 23, minute and second <= 59.
\* The two-digit sums are at most 19 + 9, so the u8 arithmetic cannot wrap.
validate_timestamp_scalar(ds) ==
    IF Len(ds) < 14 THEN FALSE
    ELSE IF \E x \in 1..14 : ds[x] < 48 \/ ds[x] > 57 THEN FALSE
    ELSE LET digits == [x \in 1..14 |-> ds[x] - 48]
             month == digits[5] * 10 + digits[6]
             day == digits[7] * 10 + digits[8]
             hour == digits[9] * 10 + digits[10]
             minute == digits[11] * 10 + digits[12]
             second == digits[13] * 10 + digits[14]
         IN  IF \E x \in 1..14 : digits[x] > digit_limits[x] THEN FALSE
             ELSE /\ month >= 1 /\ month <= 12
                  /\ day >= 1 /\ day <= 31
                  /\ hour <= 23
                  /\ minute <= 59
                  /\ second <= 59

limit_array == <<9, 9, 9, 9, 1, 9, 3, 9, 2, 9, 5, 9, 5, 9, 255, 255>>

limit16_array == <<99, 99, 12, 31, 23, 59, 59, 65535>>

\* validate_timestamp_neon: the sixteen bytes minus '0' are held against
\* limit_array, the eight two-digit numbers against limit16_array, and the
\* call returns whether nothing exceeds its ceiling
validate_timestamp_neon(ds) ==
    IF Len(ds) < 16 THEN FALSE
    ELSE LET v == vsubq_u8(Load(ds, 0, 16), vdup(48, 16))
             abide_by_limits == vqsub(v, limit_array)
             v16 == vreinterpretq_u16_u8(v)
             tens == vandq_u16(v16, vdup(255, 8))
             ones == vshrq_n_u16(v16, 8)
             combined == vmlaq_n_u16(ones, tens, 10)
             abide_by_limits16 == vqsub(combined, limit16_array)
             limits == vorr(vreinterpretq_u8_u16(abide_by_limits16),
                            abide_by_limits)
         IN  vmaxvq_u8(limits) = 0

\* one call of validate_timestamp_neon
validate_timestamp_neon_call ==
    /\ pc = "validate_timestamp_neon"
    /\ neon_ret' = validate_timestamp_neon(date_string)
    /\ pc' = "validate_timestamp_scalar"
    /\ UNCHANGED <<scalar_ret, notParse>>

\* one call of validate_timestamp_scalar on the same bytes
validate_timestamp_scalar_call ==
    /\ pc = "validate_timestamp_scalar"
    /\ scalar_ret' = validate_timestamp_scalar(date_string)
    /\ pc' = "validate_timestamp_done"
    /\ UNCHANGED <<neon_ret, notParse>>

\* two ASCII digits
Digits2(n) == <<48 + (n \div 10), 48 + (n % 10)>>

\* the two-byte fields the timestamps are put together from: every field at
\* 0, at its ceiling and just above it, a digit just above its own ceiling,
\* and bytes just below '0', just above '9', 0 and 255
CenturyFields == {Digits2(20), Digits2(99), <<50, 58>>, <<47, 48>>}
YearFields == {Digits2(24), Digits2(99)}
MonthFields == {Digits2(n) : n \in {0, 1, 12, 13, 19, 20}}
DayFields == {Digits2(n) : n \in {0, 1, 31, 32, 39, 40}}
HourFields == {Digits2(n) : n \in {0, 23, 24, 30}}
MinuteFields == {Digits2(n) : n \in {0, 59, 60}}
SecondFields ==
    {Digits2(n) : n \in {0, 59, 60}}
        \cup {<<47, 48>>, <<53, 58>>, <<255, 48>>, <<48, 0>>}
PaddingFields == {<<88, 88>>, <<0, 255>>}

\* the lengths a timestamp is cut to: the sixteen bytes of a call, and the
\* lengths around the two length checks
DateLens == {13, 14, 15, 16}

InitTimestamp ==
    /\ \E cc \in CenturyFields, yy \in YearFields, mo \in MonthFields,
          dd \in DayFields, hh \in HourFields, mi \in MinuteFields,
          ss \in SecondFields, pad \in PaddingFields, len \in DateLens :
          /\ len < 16 => /\ cc = Digits2(20) /\ yy = Digits2(24)
                         /\ hh = Digits2(23) /\ mi = Digits2(59)
                         /\ pad = <<88, 88>>
          /\ date_string
                = SubSeq(cc \o yy \o mo \o dd \o hh \o mi \o ss \o pad, 1, len)
    /\ pc = "validate_timestamp_neon"
    /\ ip_string = <<>>
    /\ neon_ret = "none" /\ scalar_ret = "none"
    /\ waiting = "none"
    /\ B = <<>> /\ first = <<>> /\ stores = <<>>
    /\ out_ptr = 0 /\ neon_len = 0 /\ i = 0 /\ scalar_len = 0
    /\ ub = {}
    /\ buf = <<>> /\ rem = 0 /\ p = 0 /\ sbuf = <<>> /\ out = 0
    /\ input = <<>> /\ output = <<>> /\ in_ptr = 0 /\ soutput = <<>>
    /\ out_idx = 0
    /\ buffer = <<>> /\ k = 0 /\ input_pos = 0 /\ output_pos = 0
    /\ remaining = 0 /\ neon_vec = <<>> /\ s_input_pos = 0 /\ s_output = <<>>
    /\ ret = "none" /\ read_end = 0
    /\ OthersIdle

NextTimestamp ==
    \/ validate_timestamp_neon_call
    \/ validate_timestamp_scalar_call

SpecTimestamp == InitTimestamp /\ [][NextTimestamp]_vars

\* both validators have returned for a sixteen-byte argument
TimestampChecked ==
    /\ pc = "validate_timestamp_done"
    /\ Len(date_string) = 16

\* C19: for every 16-byte input validate_timestamp_neon returns the same
\* boolean as validate_timestamp_scalar, month 00 and day 00 included
C19_TimestampNeonMatchesScalar ==
    TimestampChecked => neon_ret = scalar_ret

\* the two validators differ on sixteen bytes only when the month or the
\* day is "00", and then it is validate_timestamp_neon that accepts
TimestampNeonMatchesScalarUnlessZeroField ==
    TimestampChecked /\ neon_ret # scalar_ret
        => /\ neon_ret = TRUE
           /\ \/ SubSeq(date_string, 5, 6) = <<48, 48>>
              \/ SubSeq(date_string, 7, 8) = <<48, 48>>

-----------------------------------------------------------------------------
\* ipv4_parser_neon.rs

\* three decimal digits as one u16; at most 999, so nothing wraps
octet(d) == d[1] * 100 + d[2] * 10 + d[3]

\* oct_digits: three bytes minus '0', wrapping
oct_digits(s, at) ==
    [x \in 1..3 |-> (s[at + x] - 48 + 256) % 256]

\* Option<[u8; 4]>: <<>> is None, a tuple of four bytes is Some
None == <<>>

parse_ipv4_scalar_wrapping(s) ==
    IF Len(s) < 15 THEN None
    ELSE IF s[4] # 46 \/ s[8] # 46 \/ s[12] # 46 THEN None
    ELSE IF \E x \in 0..3, y \in 1..3 : oct_digits(s, 4 * x)[y] > 9 THEN None
    ELSE [x \in 1..4 |-> octet(oct_digits(s, 4 * (x - 1))) % 256]

\* parse_ipv4_scalar: the checks in the order of the source, digits of an
\* octet, then the dot behind it, and the four ceilings at the end
parse_ipv4_scalar(s) ==
    IF Len(s) < 15 THEN None
    ELSE LET oct1_digits == oct_digits(s, 0)
             oct2_digits == oct_digits(s, 4)
             oct3_digits == oct_digits(s, 8)
             oct4_digits == oct_digits(s, 12)
             oct1 == octet(oct1_digits)
             oct2 == octet(oct2_digits)
             oct3 == octet(oct3_digits)
             oct4 == octet(oct4_digits)
         IN  IF \E x \in 1..3 : oct1_digits[x] > 9 THEN None
             ELSE IF s[4] # 46 THEN None
             ELSE IF \E x \in 1..3 : oct2_digits[x] > 9 THEN None
             ELSE IF s[8] # 46 THEN None
             ELSE IF \E x \in 1..3 : oct3_digits[x] > 9 THEN None
             ELSE IF s[12] # 46 THEN None
             ELSE IF \E x \in 1..3 : oct4_digits[x] > 9 THEN None
             ELSE IF oct1 > 255 \/ oct2 > 255 \/ oct3 > 255 \/ oct4 > 255
                  THEN None
             ELSE <<oct1 % 256, oct2 % 256, oct3 % 256, oct4 % 256>>

\* vcreate_u8(0x0908060504020100), the lowest byte first
digit_positions_low == <<0, 1, 2, 4, 5, 6, 8, 9>>

digit_positions_high_from_11 == <<11, 12, 13, 14, 255, 255, 255, 255>>

\* vcreate_u8(0xFFFFFFFF0E0D0C0A), the lowest byte first
digit_positions_high == <<10, 12, 13, 14, 255, 255, 255, 255>>

\* parse_ipv4_neon: the three dots first, then the twelve digits gathered
\* by one table lookup, then the ceilings
parse_ipv4_neon(s) ==
    IF Len(s) < 16 THEN None
    ELSE IF s[4] # 46 \/ s[8] # 46 \/ s[12] # 46 THEN None
    ELSE LET v == Load(s, 0, 16)
             digits == vqtbl1q(v, vcombine(digit_positions_low,
                                           digit_positions_high))
             digit_values == vsubq_u8(digits, vdup(48, 16))
             oct1 == octet(SubSeq(digit_values, 1, 3))
             oct2 == octet(SubSeq(digit_values, 4, 6))
             oct3 == octet(SubSeq(digit_values, 7, 9))
             oct4 == octet(SubSeq(digit_values, 10, 12))
         IN  IF \E x \in 1..12 : digit_values[x] > 9 THEN None
             ELSE IF oct1 > 255 \/ oct2 > 255 \/ oct3 > 255 \/ oct4 > 255
                  THEN None
             ELSE <<oct1 % 256, oct2 % 256, oct3 % 256, oct4 % 256>>

\* one call of parse_ipv4_neon
parse_ipv4_neon_call ==
    /\ pc = "parse_ipv4_neon"
    /\ neon_ret' = parse_ipv4_neon(ip_string)
    /\ pc' = "parse_ipv4_scalar"
    /\ UNCHANGED <<scalar_ret, notParse>>

\* one call of parse_ipv4_scalar on the same bytes
parse_ipv4_scalar_call ==
    /\ pc = "parse_ipv4_scalar"
    /\ scalar_ret' = parse_ipv4_scalar(ip_string)
    /\ pc' = "parse_ipv4_done"
    /\ UNCHANGED <<neon_ret, notParse>>

\* three ASCII digits
Digits3(n) == <<48 + (n \div 100), 48 + ((n \div 10) % 10), 48 + (n % 10)>>

\* the three-byte groups the addresses are put together from: octets at 0,
\* at 255, just above it (256 is 0 as a u8) and at 999, and groups with a
\* letter, with a byte just below '0' and with a byte just above '9'
OctetGroups ==
    {Digits3(n) : n \in {0, 1, 192, 255, 256, 999}}
        \cup {<<49, 57, 65>>, <<47, 48, 48>>, <<48, 58, 48>>}

\* what stands where a dot belongs: the dot, or a digit
DotBytes == {46, 49}

\* the padding byte at index 15
PadBytes == {88, 0}

\* the lengths an address is given: sixteen bytes, one more, the lengths
\* around the two length checks, and none
IpLens == {0, 14, 15, 16, 17}

InitIpv4 ==
    /\ \E g1 \in OctetGroups, g2 \in OctetGroups, g3 \in OctetGroups,
          g4 \in OctetGroups, d1 \in DotBytes, d2 \in DotBytes,
          d3 \in DotBytes, pad \in PadBytes, len \in IpLens :
          /\ len # 16 => /\ g2 = Digits3(192) /\ g3 = Digits3(1)
                         /\ d1 = 46 /\ d2 = 46 /\ pad = 88
          /\ ip_string
                = SubSeq(g1 \o <<d1>> \o g2 \o <<d2>> \o g3 \o <<d3>> \o g4
                            \o <<pad, 88>>, 1, len)
    /\ pc = "parse_ipv4_neon"
    /\ date_string = <<>>
    /\ neon_ret = "none" /\ scalar_ret = "none"
    /\ waiting = "none"
    /\ B = <<>> /\ first = <<>> /\ stores = <<>>
    /\ out_ptr = 0 /\ neon_len = 0 /\ i = 0 /\ scalar_len = 0
    /\ ub = {}
    /\ buf = <<>> /\ rem = 0 /\ p = 0 /\ sbuf = <<>> /\ out = 0
    /\ input = <<>> /\ output = <<>> /\ in_ptr = 0 /\ soutput = <<>>
    /\ out_idx = 0
    /\ buffer = <<>> /\ k = 0 /\ input_pos = 0 /\ output_pos = 0
    /\ remaining = 0 /\ neon_vec = <<>> /\ s_input_pos = 0 /\ s_output = <<>>
    /\ ret = "none" /\ read_end = 0
    /\ OthersIdle

NextIpv4 ==
    \/ parse_ipv4_neon_call
    \/ parse_ipv4_scalar_call

SpecIpv4 == InitIpv4 /\ [][NextIpv4]_vars

\* C20: for every input of at least 16 bytes parse_ipv4_neon returns what
\* parse_ipv4_scalar returns, None or Some of the same four octets,
\* whichever of the checks fails first and whatever the padding byte is
C20_Ipv4NeonMatchesScalar ==
    pc = "parse_ipv4_done" /\ Len(ip_string) >= 16
        => neon_ret = scalar_ret

\* both parsers have returned Some for an address whose fourth octet is
\* 255 and whose padding byte is 0
C20_Witness ==
    /\ pc = "parse_ipv4_done"
    /\ Len(ip_string) = 16
    /\ ip_string[16] = 0
    /\ neon_ret # None
    /\ scalar_ret # None
    /\ neon_ret[4] = 255

-----------------------------------------------------------------------------
\* ascii_tolower_neon.rs

\* the calls run on buffers of up to MaxLowerLen bytes
MaxLowerLen == 66

\* to_lower_scalar
to_lower_scalar(byte) ==
    IF byte >= 65 /\ byte <= 90 THEN byte + (97 - 65) ELSE byte

\* ascii_tolower_scalar: to_lower_scalar of every byte
ascii_tolower_scalar(bytes) ==
    Lanes([x \in 1..Len(bytes) |-> to_lower_scalar(bytes[x])], Len(bytes))

\* vcgeq_u8, vcleq_u8: all ones in the lanes where the comparison holds
vcgeq_u8(a, b) ==
    Lanes([x \in 1..Len(a) |-> IF a[x] >= b[x] THEN 255 ELSE 0], Len(a))

vcleq_u8(a, b) ==
    Lanes([x \in 1..Len(a) |-> IF a[x] <= b[x] THEN 255 ELSE 0], Len(a))

\* vandq_u8
vandq_u8(a, b) == Lanes([x \in 1..Len(a) |-> AndByte(a[x], b[x])], Len(a))

\* vaddq_u8: lane-wise sum, wrapping at 256
vaddq_u8(a, b) == Lanes([x \in 1..Len(a) |-> (a[x] + b[x]) % 256], Len(a))

tolower16_below_z(c) ==
    LET is_upper == vandq_u8(vcgeq_u8(c, vdup(65, 16)),
                             vcleq_u8(c, vdup(90 - 1, 16)))
    IN  vaddq_u8(c, vandq_u8(is_upper, vdup(97 - 65, 16)))

\* tolower16: 'a' - 'A' added in the lanes that are >= 'A' and <= 'Z'
tolower16(c) ==
    LET ge_a == vcgeq_u8(c, vdup(65, 16))
        le_z == vcleq_u8(c, vdup(90, 16))
        is_upper == vandq_u8(ge_a, le_z)
        offset == vandq_u8(is_upper, vdup(97 - 65, 16))
    IN  vaddq_u8(c, offset)

\* vec![0u8; len]
zeroed(len) == Lanes([x \in 1..len |-> 0], len)

\* the call that follows the return of a call: the three NEON functions and
\* then the scalar one run on the same buffer
after_call(fn) ==
    IF fn = "ascii_tolower_neon" THEN "ascii_tolower_neon_32"
    ELSE IF fn = "ascii_tolower_neon_32" THEN "ascii_tolower_neon_64"
    ELSE "ascii_tolower_scalar"

\* the bytes one iteration of a NEON function lowers: 16, 32 or 64
step_width(fn) ==
    IF fn = "ascii_tolower_neon" THEN 16
    ELSE IF fn = "ascii_tolower_neon_32" THEN 32
    ELSE 64

\* the registers of one iteration, each through tolower16
lowered(bytes, at, width) ==
    IF width = 16 THEN tolower16(Load(bytes, at, 16))
    ELSE IF width = 32
    THEN tolower16(Load(bytes, at, 16)) \o tolower16(Load(bytes, at + 16, 16))
    ELSE tolower16(Load(bytes, at, 16)) \o tolower16(Load(bytes, at + 16, 16))
         \o tolower16(Load(bytes, at + 32, 16))
         \o tolower16(Load(bytes, at + 48, 16))

NeonLowerFns ==
    {"ascii_tolower_neon", "ascii_tolower_neon_32", "ascii_tolower_neon_64"}

\* what the lower-casing calls leave alone
notLower ==
    <<waiting, B, first, stores, out_ptr, neon_len, scalar_len, ub,
      compactVars, escapeVars, k, input_pos, output_pos, remaining, neon_vec,
      s_input_pos, s_output, scanVars, date_string, ip_string, found, n32,
      table_mask, rows, kept>>

\* if !is_aarch64_feature_detected!("neon") { return ascii_tolower_scalar }
ascii_tolower_not_detected ==
    /\ pc \in NeonLowerFns
    /\ i = 0
    /\ neon_ret' = Append(neon_ret, ascii_tolower_scalar(buffer))
    /\ pc' = after_call(pc)
    /\ UNCHANGED <<i, result, buffer, scalar_ret, notLower>>

\* one iteration of the loop of ascii_tolower_neon: 16 bytes
ascii_tolower_neon_chunk ==
    /\ pc = "ascii_tolower_neon"
    /\ i + 16 <= Len(buffer)
    /\ result' = Store(result, i, lowered(buffer, i, 16))
    /\ i' = i + 16
    /\ UNCHANGED <<pc, buffer, neon_ret, scalar_ret, notLower>>

\* one iteration of the loop of ascii_tolower_neon_32: 32 bytes
ascii_tolower_neon_32_chunk ==
    /\ pc = "ascii_tolower_neon_32"
    /\ i + 32 <= Len(buffer)
    /\ result' = Store(result, i, lowered(buffer, i, 32))
    /\ i' = i + 32
    /\ UNCHANGED <<pc, buffer, neon_ret, scalar_ret, notLower>>

\* one iteration of the loop of ascii_tolower_neon_64: 64 bytes
ascii_tolower_neon_64_chunk ==
    /\ pc = "ascii_tolower_neon_64"
    /\ i + 64 <= Len(buffer)
    /\ result' = Store(result, i, lowered(buffer, i, 64))
    /\ i' = i + 64
    /\ UNCHANGED <<pc, buffer, neon_ret, scalar_ret, notLower>>

\* the remaining bytes through to_lower_scalar, and the return; the next
\* call starts with its own zeroed Vec
ascii_tolower_neon_remaining ==
    /\ pc \in NeonLowerFns
    /\ ~(i + step_width(pc) <= Len(buffer))
    /\ neon_ret'
          = Append(neon_ret,
                   Store(result, i,
                         ascii_tolower_scalar(
                             SubSeq(buffer, i + 1, Len(buffer)))))
    /\ result' = zeroed(Len(buffer))
    /\ i' = 0
    /\ pc' = after_call(pc)
    /\ UNCHANGED <<buffer, scalar_ret, notLower>>

\* one call of ascii_tolower_scalar
ascii_tolower_scalar_call ==
    /\ pc = "ascii_tolower_scalar"
    /\ scalar_ret' = ascii_tolower_scalar(buffer)
    /\ pc' = "ascii_tolower_done"
    /\ UNCHANGED <<i, result, buffer, neon_ret, notLower>>

\* the buffers of the lower-casing calls: every length up to MaxLowerLen,
\* the bytes counting up from `start`, so that every byte value stands at
\* every index
LowerBuffer(len, start) ==
    Lanes([x \in 1..len |-> (start + x - 1) % 256], len)

InitLower ==
    /\ \E len \in 0..MaxLowerLen, start \in Byte :
          buffer = LowerBuffer(len, start)
    /\ pc = "ascii_tolower_neon"
    /\ result = zeroed(Len(buffer))
    /\ i = 0
    /\ neon_ret = <<>> /\ scalar_ret = "none"
    /\ date_string = <<>> /\ ip_string = <<>>
    /\ found = "none" /\ n32 = 0
    /\ table_mask = 0 /\ rows = <<>> /\ kept = 0
    /\ waiting = "none"
    /\ B = <<>> /\ first = <<>> /\ stores = <<>>
    /\ out_ptr = 0 /\ neon_len = 0 /\ scalar_len = 0
    /\ ub = {}
    /\ buf = <<>> /\ rem = 0 /\ p = 0 /\ sbuf = <<>> /\ out = 0
    /\ input = <<>> /\ output = <<>> /\ in_ptr = 0 /\ soutput = <<>>
    /\ out_idx = 0
    /\ k = 0 /\ input_pos = 0 /\ output_pos = 0
    /\ remaining = 0 /\ neon_vec = <<>> /\ s_input_pos = 0 /\ s_output = <<>>
    /\ ret = "none" /\ read_end = 0

NextLower ==
    \/ ascii_tolower_not_detected
    \/ ascii_tolower_neon_chunk
    \/ ascii_tolower_neon_32_chunk
    \/ ascii_tolower_neon_64_chunk
    \/ ascii_tolower_neon_remaining
    \/ ascii_tolower_scalar_call

SpecLower == InitLower /\ [][NextLower]_vars

\* C21: for every buffer, ascii_tolower_neon, ascii_tolower_neon_32 and
\* ascii_tolower_neon_64 each return the vector ascii_tolower_scalar
\* returns: as long as the input, 'A'..'Z' increased by 32 and every other
\* byte unchanged
C21_LowerNeonMatchesScalar ==
    pc = "ascii_tolower_done"
        => /\ Len(neon_ret) = 3
           /\ \A f \in 1..3 : neon_ret[f] = scalar_ret
           /\ Len(scalar_ret) = Len(buffer)
           /\ \A x \in 1..Len(buffer) :
                 scalar_ret[x] = IF buffer[x] \in 65..90 THEN buffer[x] + 32
                                 ELSE buffer[x]

\* a buffer of 65 bytes counting up from 0x1A to 'Z': ascii_tolower_neon_64
\* lowered 64 bytes in its one iteration and the last byte on its own; 'A'
\* and 'Z' came out as 'a' and 'z', '@' as it was
C21_Witness ==
    /\ pc = "ascii_tolower_done"
    /\ Len(buffer) = 65
    /\ buffer[1] = 26
    /\ buffer[65] = 90 /\ neon_ret[3][65] = 122
    /\ buffer[40] = 65 /\ neon_ret[3][40] = 97
    /\ neon_ret[3][39] = 64

-----------------------------------------------------------------------------
(* The contract of parse_ipv4_scalar *)

\* the indices (from 1) of the twelve digits of a fixed-width address
DigitIndices == {1, 2, 3, 5, 6, 7, 9, 10, 11, 13, 14, 15}

\* the decimal value of the three-digit group that starts behind `at`
GroupValue(s, at) ==
    (s[at + 1] - 48) * 100 + (s[at + 2] - 48) * 10 + (s[at + 3] - 48)

\* at least 15 bytes, dots at 3, 7 and 11, digits elsewhere in the first
\* 15, and no group above 255
WellFormedAddress(s) ==
    /\ Len(s) >= 15
    /\ s[4] = 46 /\ s[8] = 46 /\ s[12] = 46
    /\ \A x \in DigitIndices : s[x] \in 48..57
    /\ \A g \in 0..3 : GroupValue(s, 4 * g) <= 255

\* C22: parse_ipv4_scalar returns Some([a, b, c, d]) iff the input has at
\* least 15 bytes, bytes 3, 7 and 11 are '.', the other twelve of the first
\* 15 are ASCII digits and every three-digit group is <= 255, and then a,
\* b, c, d are the values of the groups; otherwise it returns None
C22_Ipv4ScalarContract ==
    pc = "parse_ipv4_done"
        => IF WellFormedAddress(ip_string)
           THEN scalar_ret = <<GroupValue(ip_string, 0),
                               GroupValue(ip_string, 4),
                               GroupValue(ip_string, 8),
                               GroupValue(ip_string, 12)>>
           ELSE scalar_ret = None

\* "255.192.001.000" without a padding byte: parse_ipv4_scalar returns the
\* four octets (and parse_ipv4_neon, one byte short, None)
C22_Witness ==
    /\ pc = "parse_ipv4_done"
    /\ Len(ip_string) = 15
    /\ scalar_ret = <<255, 192, 1, 0>>
    /\ neon_ret = None

-----------------------------------------------------------------------------
(* The accesses of insert_line_feed_neon *)

\* a call of insert_line_feed_neon with k > 0 is under way, or has just
\* stopped at a fault
InLineFeedNeon ==
    /\ pc \in {"insert_line_feed_neon", "insert_line_feed_neon_copy",
               "insert_line_feed_fault"}
    /\ k > 0

\* C23: in insert_line_feed_neon with k > 0 the write cursor is <= the
\* allocated capacity N + N \div k at every step and every store, the two
\* 16-byte stores of a run of k <= 32 bytes included, lies below the
\* capacity
C23_LineFeedStoresInCapacity ==
    InLineFeedNeon
        => /\ Len(output) = Len(buffer) + Len(buffer) \div k
           /\ output_pos <= Len(output)
           /\ \A s \in 1..Len(stores) :
                 stores[s].at + stores[s].width <= Len(output)

\* what remains of C23 in the code: the write cursor stays within the
\* capacity, and so does every store of a run of more than 32 bytes
LineFeedCursorInCapacity ==
    InLineFeedNeon
        => /\ Len(output) = Len(buffer) + Len(buffer) \div k
           /\ output_pos <= Len(output)
           /\ k > 32 => \A s \in 1..Len(stores) :
                           stores[s].at + stores[s].width <= Len(output)

\* C24: in insert_line_feed_neon with k > 0 every load reads input indices
\* below N only, the 16-byte load of lower at input_pos and the 16-byte
\* load of upper at input_pos + 16 included
C24_LineFeedLoadsInInput ==
    InLineFeedNeon => "load" \notin ub

\* what remains of C24 in the code: the loads of a run of more than 32
\* bytes stay inside the input, and so do those of a run of k <= 32 bytes
\* that starts 32 bytes or more before the end
LineFeedLoadsInInputFarFromEnd ==
    /\ InLineFeedNeon /\ k > 32 => "load" \notin ub
    /\ [][(insert_line_feed_neon_run /\ input_pos + 32 <= Len(buffer))
             => (ub' \ ub) \subseteq {"store"}]_vars

-----------------------------------------------------------------------------
(* The bytes compaction leaves behind the kept prefix *)

\* C25: compaction changes no buffer byte at an index >= the returned
\* length: after remove_byte_neon, as after
\* remove_chars_from_strings_scalar, every byte beyond the kept prefix holds
\* its original value, so the whole buffer is the same after the two calls
C25_CompactKeepsBytesBeyondPrefix ==
    pc = "compact_done"
        => /\ \A x \in (scalar_len + 1)..Len(B) : sbuf[x] = B[x]
           /\ \A x \in (neon_len + 1)..Len(B) : buf[x] = B[x]
           /\ buf = sbuf

\* what remains of C25 in the code: remove_chars_from_strings_scalar leaves
\* every byte beyond the kept prefix as it was; after remove_byte_neon such
\* a byte is as it was or is 0, the lanes compress8 stores behind the kept
\* ones
CompactKeepsOrZeroesBytesBeyondPrefix ==
    pc = "compact_done"
        => /\ \A x \in (scalar_len + 1)..Len(B) : sbuf[x] = B[x]
           /\ \A x \in (neon_len + 1)..Len(B) : buf[x] \in {B[x], 0}
           /\ Len(buf) = Len(B)

-----------------------------------------------------------------------------
(* The order in which has_json_escapable_byte reads the buffer *)

\* the scan runs over several words: buffers of up to MaxScanWordsLen bytes
MaxScanWordsLen == 25

\* the bytes put into a clean buffer: special ones and clean ones
WordProbes == {31, 33, 34, 92, 220}

\* one background byte, the byte u at index `at` and the byte v eight
\* indices further, in the same lane of the next word
ScanWordsBuffer(len, bg, at, u, v) ==
    [x \in 1..len |-> IF x = at THEN u ELSE IF x = at + 8 THEN v ELSE bg]

\* the scan before its first step; r is what the slot of the return value
\* holds
ScanWordsStart(r) ==
    /\ pc = "has_json_escapable_byte"
    /\ \E len \in 0..MaxScanWordsLen, bg \in {32, 255},
          at \in 1..MaxScanWordsLen, u \in WordProbes, v \in WordProbes :
          /\ at <= len \/ (len = 0 /\ at = 1 /\ u = 31 /\ v = 31)
          /\ buffer = ScanWordsBuffer(len, bg, at, u, v)
    /\ i = 0
    /\ ret = r /\ read_end = 0
    /\ OthersIdle
    /\ first = <<>>
    /\ waiting = "none"
    /\ ParsersIdle
    /\ stores = <<>>
    /\ ub = {}
    /\ B = <<>> /\ buf = <<>> /\ rem = 0 /\ p = 0 /\ sbuf = <<>> /\ out = 0
    /\ out_ptr = 0 /\ neon_len = 0 /\ scalar_len = 0
    /\ input = <<>> /\ output = <<>> /\ in_ptr = 0
    /\ soutput = <<>> /\ out_idx = 0
    /\ k = 0 /\ input_pos = 0 /\ output_pos = 0
    /\ remaining = 0 /\ neon_vec = <<>> /\ s_input_pos = 0 /\ s_output = <<>>

InitScanWords == ScanWordsStart("none")

SpecScanWords == InitScanWords /\ [][NextScan]_vars

\* the whole word of the buffer at offset 8 * w
WordAt(w) == Load(buffer, 8 * w, 8)

\* C26: has_json_escapable_byte stops at the first 8-byte word that holds a
\* hit: once the word at offset i reports a special byte the call returns
\* true and no byte at an index >= i + 8 has been read; the byte-at-a-time
\* scan of the remainder (fewer than 8 bytes) runs only after every whole
\* word has been examined and found clean
C26_ScanStopsAtFirstHit ==
    /\ pc = "has_json_escapable_byte" => read_end = i
    /\ pc \in {"has_json_escapable_byte", "has_json_escapable_byte_done"}
          => /\ i % 8 = 0
             /\ \A w \in 0..(i \div 8 - 1) :
                   ~has_json_escapable_byte_swar(WordAt(w))
    /\ pc = "has_json_escapable_byte_done"
          => IF i + 8 <= Len(buffer)
             THEN /\ ret = TRUE
                  /\ has_json_escapable_byte_swar(WordAt(i \div 8))
                  /\ read_end = i + 8
             ELSE /\ i = 8 * (Len(buffer) \div 8)
                  /\ Len(buffer) - i < 8
                  /\ read_end <= Len(buffer)

\* three whole words, a special byte in the second and one in the third:
\* the call has returned true from the second iteration and the third word
\* was never read
C26_Witness ==
    /\ pc = "has_json_escapable_byte_done"
    /\ Len(buffer) = 25
    /\ i = 8
    /\ ret = TRUE
    /\ read_end = 16
    /\ \E x \in 17..24 : needs_json_escape_scalar(buffer[x])

-----------------------------------------------------------------------------
(* The two tables looked up, and compress8 called, for one mask *)

\* what these steps leave alone
notTables ==
    <<waiting, B, first, stores, neon_len, i, scalar_len, ub, compactVars,
      in_ptr, soutput, out_idx, lfVars, scanVars, parseVars, result, found,
      n32>>

\* SHUF8_TABLE[mask as usize], COMPRESS_TABLE[mask as usize]
table_lookup ==
    /\ pc = "table_lookup"
    /\ rows' = <<SHUF8_TABLE[table_mask], COMPRESS_TABLE[table_mask]>>
    /\ pc' = "compress8"
    /\ UNCHANGED <<table_mask, kept, input, output, out_ptr, notTables>>

\* compress8(input, mask, out_ptr): the 8-byte store and the returned count
compress8_call ==
    /\ pc = "compress8"
    /\ LET c == compress8(input, table_mask, out_ptr)
       IN  /\ output' = Store(output, c.store.at, c.store.bytes)
           /\ kept' = c.kept
    /\ pc' = "compress8_done"
    /\ UNCHANGED <<table_mask, rows, input, out_ptr, notTables>>

\* the vectors compress8 is given: eight different lanes, and lanes that
\* repeat and hold 0 and 255
TableLanes ==
    {<<1, 130, 3, 132, 5, 134, 7, 136>>, <<255, 0, 255, 0, 10, 10, 34, 92>>}

InitTables ==
    /\ pc = "table_lookup"
    /\ table_mask \in 0..255
    /\ input \in TableLanes
    /\ out_ptr \in {0, 5}
    /\ output = FreshOutput(16)
    /\ rows = <<>> /\ kept = 0
    /\ result = <<>> /\ found = "none" /\ n32 = 0
    /\ waiting = "none"
    /\ B = <<>> /\ first = <<>> /\ stores = <<>>
    /\ neon_len = 0 /\ i = 0 /\ scalar_len = 0
    /\ ub = {}
    /\ buf = <<>> /\ rem = 0 /\ p = 0 /\ sbuf = <<>> /\ out = 0
    /\ in_ptr = 0 /\ soutput = <<>> /\ out_idx = 0
    /\ buffer = <<>> /\ k = 0 /\ input_pos = 0 /\ output_pos = 0
    /\ remaining = 0 /\ neon_vec = <<>> /\ s_input_pos = 0 /\ s_output = <<>>
    /\ ret = "none" /\ read_end = 0
    /\ ParsersIdle

NextTables ==
    \/ table_lookup
    \/ compress8_call

SpecTables == InitTables /\ [][NextTables]_vars

\* the lanes (from 0) whose bit is set in m
SetBits(m) == {b \in 0..7 : (m \div 2 ^ b) % 2 = 1}

\* the j-th smallest member of the set bs, j from 1
NthOf(bs, j) ==
    CHOOSE b \in bs : Cardinality({a \in bs : a < b}) = j - 1

\* the first popcount(m) entries of the row are the set bits of m in
\* ascending order, every other entry is 0xFF
RowListsSetBits(row, m) ==
    \A j \in 1..Len(row) :
        row[j] = IF j <= Cardinality(SetBits(m)) THEN NthOf(SetBits(m), j)
                 ELSE 255

\* C27: for every mask m the rows of the two tables hold, in their first
\* popcount(m) entries, the indices of the set bits of m in ascending order
\* and 0xFF in every other entry; compress8 with mask m stores the kept
\* lanes contiguously in their order and returns popcount(m)
C27_TablesListSetBits ==
    /\ pc \in {"compress8", "compress8_done"}
          => /\ Len(rows[1]) = 8 /\ RowListsSetBits(rows[1], table_mask)
             /\ Len(rows[2]) = 16 /\ RowListsSetBits(rows[2], table_mask)
    /\ pc = "compress8_done"
          => /\ kept = Cardinality(SetBits(table_mask))
             /\ \A j \in 1..kept :
                   output[out_ptr + j] = input[NthOf(SetBits(table_mask), j) + 1]

\* the mask 0xA5 keeps the lanes 0, 2, 5 and 7
C27_Witness ==
    /\ pc = "compress8_done"
    /\ table_mask = 165
    /\ rows[1] = <<0, 2, 5, 7, 255, 255, 255, 255>>
    /\ kept = 4
    /\ out_ptr = 5
    /\ SubSeq(output, 6, 9) = <<1, 3, 134, 136>>

-----------------------------------------------------------------------------
(* Termination of the calls *)

\* the keep-masks, the designated-byte masks and the periods of the calls
CallMasks == {0, 90, 255}

CallPeriods == {0, 1, 3, 15, 16, 31, 32, 33, MaxK}

\* a single call of each transform and of the scan, on the buffers of
\* InitCompact, InitEscape, InitLineFeed and InitScanWords that these masks
\* and periods select.  The slot of the return value of the scan holds a
\* boolean from the start, so that successive states compare.
InitCalls ==
    \/ /\ InitCompact
       /\ rem = 97
       /\ \E m \in CallMasks : B = CompactBuffer(Len(B), 97, m, 0)
    \/ /\ InitEscape
       /\ Len(output) = 2 * Len(input)
       /\ \E m \in CallMasks : input = EscapeInput(Len(input), m, 0)
    \/ /\ InitLineFeed
       /\ k \in CallPeriods
       /\ buffer = LineFeedBuffer(Len(buffer), 0)
    \/ /\ \E r \in BOOLEAN : ScanWordsStart(r)
       /\ \E at \in 1..MaxScanWordsLen, u \in {31, 33} :
             buffer = ScanWordsBuffer(Len(buffer), 32, at, u, 33)

NextCalls ==
    \/ NextCursors
    \/ NextScan

\* the position of a call and its input cursors: every step of a call
\* changes one of them
cursors == <<pc, p, i, in_ptr, input_pos, s_input_pos>>

\* the steps that run a whole vector or word pipeline, and the conditions
\* under which the code takes them: a chunk of escape_json_neon, a run of
\* insert_line_feed_neon, and either step of has_json_escapable_byte
escape_chunk_ready == pc = "escape_json_neon" /\ in_ptr + 8 <= Len(input)

line_feed_run_ready ==
    /\ pc = "insert_line_feed_neon"
    /\ k # 0
    /\ run_fits(input_pos, k, Len(buffer))
    /\ k <= 32

scan_ready == pc = "has_json_escapable_byte"

\* every other step of the calls
OtherSteps ==
    \/ NextCompact
    \/ escape_json_neon_tail
    \/ escape_json_neon_return
    \/ escape_json_scalar_step
    \/ escape_json_scalar_return
    \/ insert_line_feed_neon_k0
    \/ insert_line_feed_neon_long
    \/ insert_line_feed_neon_copy32
    \/ insert_line_feed_neon_rest
    \/ insert_line_feed_neon_return
    \/ insert_line_feed_scalar_k0
    \/ insert_line_feed_scalar_run
    \/ insert_line_feed_scalar_return

\* a step that moves the call
Moved == cursors' # cursors

\* a call runs on its thread until it returns or the process stops: a step
\* that stays possible is taken.  For the pipeline steps the weak fairness
\* is written out, with the condition of the step for ENABLED.
CallsRun ==
    /\ WF_cursors(OtherSteps)
    /\ \/ []<>(~escape_chunk_ready)
       \/ []<><<Moved /\ escape_json_neon_chunk>>_cursors
    /\ \/ []<>(~line_feed_run_ready)
       \/ []<><<Moved /\ insert_line_feed_neon_run>>_cursors
    /\ \/ []<>(~scan_ready)
       \/ []<><<Moved /\ NextScan>>_cursors

SpecCalls == InitCalls /\ [][NextCalls]_vars /\ CallsRun

\* the positions behind the return of remove_byte_neon, escape_json_neon,
\* insert_line_feed_neon and has_json_escapable_byte
CallReturned ==
    {"remove_chars_from_strings_scalar", "compact_done",
     "escape_json_scalar", "escape_done",
     "insert_line_feed_scalar", "insert_line_feed_done",
     "has_json_escapable_byte_done"}

\* the input position of the running call, as InputCursor, and i in the scan
CallCursor ==
    IF pc = "has_json_escapable_byte" THEN i ELSE InputCursor

\* the length N of the input of the running call
CallInputLen ==
    CASE pc \in {"remove_byte_neon", "remove_chars_from_strings_scalar"}
             -> Len(B)
      [] pc \in {"escape_json_neon", "escape_json_scalar"} -> Len(input)
      [] OTHER -> Len(buffer)

\* a step that completes one iteration of a loop of a call: of a driver
\* loop, of the word loop of the scan, or of the 32-byte loop inside a run
\* of k > 32 bytes
LoopIteration ==
    \/ DriverStep
    \/ pc = "has_json_escapable_byte" /\ pc' = pc
    \/ pc = "insert_line_feed_neon_copy" /\ pc' = pc

\* the input position rises at every iteration and stays within the input
CursorRisesWithinInput ==
    /\ [](CallCursor <= CallInputLen /\ input_pos <= Len(buffer))
    /\ [][LoopIteration =>
             IF pc = "insert_line_feed_neon_copy" /\ pc' = pc
             THEN input_pos' > input_pos
             ELSE CallCursor' > CallCursor]_cursors

\* C28: every call of remove_byte_neon, escape_json_neon,
\* insert_line_feed_neon (any k >= 0) and has_json_escapable_byte
\* terminates: the input cursor increases by at least one at every loop
\* iteration, never passes the input length N, and the call returns
C28_CallsTerminate ==
    /\ CursorRisesWithinInput
    /\ <>(pc \in CallReturned)

\* what remains of C28 in the code: the cursor rises and stays within the
\* input, and a call returns unless an out-of-bounds access of
\* insert_line_feed_neon stops the process
CallsTerminateUnlessFault ==
    /\ CursorRisesWithinInput
    /\ <>(pc \in CallReturned \cup {"insert_line_feed_fault"})

-----------------------------------------------------------------------------
(* insert_line_feed32_neon_impl *)

\* the calls run with an n of up to MaxN32
MaxN32 == 34

\* the 33 bytes of the result, with the last byte taken from input[30]
insert_line_feed32_neon_impl_last_from_30(in32, n) ==
    LET lower == Load(in32, 0, 16)
        upper == Load(in32, 16, 16)
    IN  IF n = 32 THEN lower \o upper \o <<10>>
        ELSE IF n >= 16
        THEN shuffle_with_line_feed(lower, identity)
             \o shuffle_with_line_feed(upper, SHUFFLE_MASKS_NEON[n - 16 + 1])
             \o <<in32[31]>>
        ELSE shuffle_with_line_feed(lower, SHUFFLE_MASKS_NEON[n + 1])
             \o shuffle_with_line_feed(vextq(lower, upper, 15), identity)
             \o <<in32[31]>>

\* the array the function returns for n <= 32: the two 16-byte stores at 0
\* and 16 of the zeroed output, and output[32]
insert_line_feed32_neon_impl(in32, n) ==
    LET lower == Load(in32, 0, 16)
        upper == Load(in32, 16, 16)
    IN  IF n = 32 THEN lower \o upper \o <<10>>
        ELSE IF n >= 16
        THEN shuffle_with_line_feed(lower, identity)
             \o shuffle_with_line_feed(upper, SHUFFLE_MASKS_NEON[n - 16 + 1])
             \o <<in32[32]>>
        ELSE shuffle_with_line_feed(lower, SHUFFLE_MASKS_NEON[n + 1])
             \o shuffle_with_line_feed(vextq(lower, upper, 15), identity)
             \o <<in32[32]>>

notImpl32 ==
    <<waiting, B, first, stores, out_ptr, neon_len, i, scalar_len, ub,
      compactVars, in_ptr, soutput, out_idx, lfVars, scanVars, parseVars,
      result, found, table_mask, rows, kept>>

\* one call; SHUFFLE_MASKS_NEON[n - 16] is a checked index into a table of
\* 16 rows and panics for n > 32 (n == 32 is handled before it)
insert_line_feed32_neon_impl_call ==
    /\ pc = "insert_line_feed32_neon_impl"
    /\ IF n32 # 32 /\ n32 >= 16 /\ n32 - 16 >= Len(SHUFFLE_MASKS_NEON)
       THEN /\ pc' = "insert_line_feed32_panic"
            /\ UNCHANGED output
       ELSE /\ output' = insert_line_feed32_neon_impl(input, n32)
            /\ pc' = "insert_line_feed32_done"
    /\ UNCHANGED <<input, n32, notImpl32>>

\* the 32-byte inputs: Tag of the lanes from `shift` on, or, in the second
\* family, a line feed, the byte 255 or Tag in turn
Impl32Input(family, shift) ==
    [x \in 1..32 |->
        IF family = 0 THEN Tag(x - 1 + shift)
        ELSE IF (x + shift) % 3 = 0 THEN 10
        ELSE IF (x + shift) % 3 = 1 THEN 255
        ELSE Tag(x - 1 + shift)]

InitImpl32 ==
    /\ pc = "insert_line_feed32_neon_impl"
    /\ n32 \in 0..MaxN32
    /\ \E family \in {0, 1}, shift \in 0..2 : input = Impl32Input(family, shift)
    /\ output = [x \in 1..33 |-> 0]
    /\ result = <<>> /\ found = "none"
    /\ table_mask = 0 /\ rows = <<>> /\ kept = 0
    /\ waiting = "none"
    /\ B = <<>> /\ first = <<>> /\ stores = <<>>
    /\ out_ptr = 0 /\ neon_len = 0 /\ i = 0 /\ scalar_len = 0
    /\ ub = {}
    /\ buf = <<>> /\ rem = 0 /\ p = 0 /\ sbuf = <<>> /\ out = 0
    /\ in_ptr = 0 /\ soutput = <<>> /\ out_idx = 0
    /\ buffer = <<>> /\ k = 0 /\ input_pos = 0 /\ output_pos = 0
    /\ remaining = 0 /\ neon_vec = <<>> /\ s_input_pos = 0 /\ s_output = <<>>
    /\ ret = "none" /\ read_end = 0
    /\ ParsersIdle

NextImpl32 == insert_line_feed32_neon_impl_call

SpecImpl32 == InitImpl32 /\ [][NextImpl32]_vars

\* C29: for every 32-byte input and every n with 0 <= n <= 32,
\* insert_line_feed32_neon_impl(input, n) returns the 33 bytes input[0..n],
\* then one line-feed byte, then input[n..32]; for n > 32 it does not
\* return a value
C29_Impl32InsertsLineFeedAtN ==
    /\ pc = "insert_line_feed32_done"
          => /\ n32 <= 32
             /\ Len(output) = 33
             /\ output = SubSeq(input, 1, n32) \o <<10>>
                         \o SubSeq(input, n32 + 1, 32)
    /\ pc = "insert_line_feed32_panic" => n32 > 32
    /\ n32 > 32 => pc # "insert_line_feed32_done"

\* n = 15: the line feed is the last lane of the first store, and the last
\* input byte arrives in output[32]
C29_Witness ==
    /\ pc = "insert_line_feed32_done"
    /\ n32 = 15
    /\ output[16] = 10
    /\ output[15] = input[15]
    /\ output[17] = input[16]
    /\ output[33] = input[32]
    /\ input[32] # input[31]

-----------------------------------------------------------------------------
(* find_first_escapable *)

\* for (i, &byte) in buffer.iter().enumerate(): the iterations from index
\* idx on
RECURSIVE find_first_escapable_from(_, _)
find_first_escapable_from(b, idx) ==
    IF idx >= Len(b) THEN None
    ELSE IF needs_json_escape_scalar(b[idx + 1]) THEN <<idx>>
    ELSE find_first_escapable_from(b, idx + 1)

\* the loop started at the second byte
find_first_escapable_from_1(b) == find_first_escapable_from(b, 1)

\* Some(i) is <<i>>
find_first_escapable(b) == find_first_escapable_from(b, 0)

notFind ==
    <<waiting, B, first, stores, out_ptr, neon_len, i, scalar_len, ub,
      compactVars, escapeVars, lfVars, scanVars, parseVars, result, n32,
      table_mask, rows, kept>>

\* find_first_escapable called on the buffer has_json_escapable_byte has
\* returned from
find_first_escapable_call ==
    /\ pc = "has_json_escapable_byte_done"
    /\ found' = find_first_escapable(buffer)
    /\ pc' = "find_first_escapable_done"
    /\ UNCHANGED notFind

InitFind ==
    \/ InitScan
    \/ InitScanWords

NextFind ==
    \/ NextScan
    \/ find_first_escapable_call

SpecFind == InitFind /\ [][NextFind]_vars

\* the indices (1-based) of the bytes < 32, == 34 or == 92
SpecialIndices(b) == {x \in 1..Len(b) : b[x] < 32 \/ b[x] = 34 \/ b[x] = 92}

\* C30: find_first_escapable(B) returns Some(i) where i is the smallest
\* index whose byte is < 32, == 34 or == 92, and None when no such byte
\* exists; it is Some exactly when has_json_escapable_byte(B) is true
C30_FindFirstIsSmallestSpecial ==
    pc = "find_first_escapable_done"
       => /\ SpecialIndices(buffer) = {} => found = None
          /\ SpecialIndices(buffer) # {}
                => /\ Len(found) = 1
                   /\ found[1] + 1 \in SpecialIndices(buffer)
                   /\ \A y \in SpecialIndices(buffer) : found[1] + 1 <= y
          /\ (found # None) <=> (ret = TRUE)

\* two special bytes in different words: the one in the second word of the
\* buffer is found, not the later one
C30_Witness ==
    /\ pc = "find_first_escapable_done"
    /\ Len(buffer) >= 18
    /\ found = <<9>>
    /\ buffer[10] = 34
    /\ buffer[18] = 31
    /\ ret = TRUE

\* a clean buffer of three words and a remainder
C30_WitnessNone ==
    /\ pc = "find_first_escapable_done"
    /\ Len(buffer) = 25
    /\ found = None
    /\ ret = FALSE

=============================================================================
